---- MODULE Spec2Model ----
(***************************************************************************)
(* The product dashboard (src/src/pages/Dashboard.jsx and its earlier      *)
(* revisions) as a state machine: the React state of the Dashboard         *)
(* component, the remote catalog it talks to, the mutation calls and       *)
(* listing requests in flight, and one action per event handler or         *)
(* promise continuation.                                                   *)
(*                                                                         *)
(* The repository holds three revisions of the Dashboard component:        *)
(*   "v1"  src/src/pages/Dashboard.jsx lines 1-373                         *)
(*   "v2"  src/unnamed/part_002        lines 1-695                         *)
(*   "v3"  src/src/pages/Dashboard.jsx lines 374-1022                      *)
(* The variable `variant` is fixed by Init and selects the revision whose  *)
(* handlers run; a property of the specification holds of all three.       *)
(***************************************************************************)
EXTENDS Integers, Sequences, FiniteSets, TLC

\* ------------------------------------------------------------------ bounds
\* user events other than Save clicks (clicks, input changes) in one run
MaxOps == 4
\* clicks on Save All Changes in one run
MaxSaves == 1
\* remote calls (listing requests and mutations) that fail in one run
MaxFailures == 2
\* rows added with "Add Product" in one run
MaxNew == 2
\* the listing page size (the code asks for 25 or 50 items per page)
PageLimit == 1

\* ------------------------------------------------------------- value sets
Variants == {"v1", "v2", "v3"}

PRODUCT_STATUSES == {"ACTIVE", "INACTIVE", "DISCONTINUED"}

\* the sku values of the model, in the order the remote listing returns them
SkuOrder == <<"", "A1", "B2", "N1">>

\* what the user types into the sku box of a new row
SkuInputs == {"A1", "N1"}

\* what the user types into the image box
ImageInputs == {"", "img"}

\* the category names of the model, in the order the remote listing returns them
CategoryOrder == <<"Garden", "Tools", "Toys", "tools">>

\* what the user types into the new-category box (before trim)
CategoryInputs == {"", " ", "Tools", " Tools ", "tools", "Garden"}

\* the temporary id NEW_<Date.now()> of a row added at clock value n
TempId(n) ==
    <<"NEW_1", "NEW_2", "NEW_3", "NEW_4", "NEW_5", "NEW_6", "NEW_7", "NEW_8", "NEW_9",
      "NEW_10", "NEW_11", "NEW_12", "NEW_13", "NEW_14", "NEW_15", "NEW_16">>[n]

\* the `id` of a record that has none (JSON.stringify leaves the key out)
NoId == "undefined"

\* a quantityInStock value: a JSON number, or the string an <input type=number> yields
Num(n) == [t |-> "number", n |-> n]
Str(n) == [t |-> "string", n |-> n]

\* what the user types into the stock box
StockInputs == {Str(5), Str(7)}

\* parseInt(value, 10) on a number or on a decimal numeral
parseInt(q) == Num(q.n)

createDefaultLocalization ==
    [lang |-> "en", country |-> "us", productName |-> "", description |-> "",
     price |-> 0, currency |-> "USD"]

\* ------------------------------------------------------------ sequences
Range(s) == {s[i] : i \in DOMAIN s}

RECURSIVE SelectSeqIdx(_, _, _)
\* the subsequence of s at the indices in keep, in order (Array.prototype.filter)
SelectSeqIdx(s, keep, i) ==
    IF i > Len(s) THEN <<>>
    ELSE (IF i \in keep THEN <<s[i]>> ELSE <<>>) \o SelectSeqIdx(s, keep, i + 1)

Filter(s, keep) == SelectSeqIdx(s, keep, 1)

\* Array.prototype.find: the first element satisfying the test, as a sequence of 0 or 1
FindFirst(s, hits) ==
    IF hits = {} THEN <<>>
    ELSE <<s[CHOOSE i \in hits : \A j \in hits : i <= j]>>

Rank(order, x) == CHOOSE i \in DOMAIN order : order[i] = x

\* ------------------------------------------------------------------ state
VARIABLES
    variant,               \* the revision of the Dashboard component that runs
    products,              \* useState: the working copy of the products
    originalProducts,      \* useState: the baseline of the products
    productNextToken,      \* useState: continuation token, 0 for null
    selectedRows,          \* useState: Set of row identifiers
    isProductSearchActive, \* useState (v2, v3)
    productSearch,         \* useState (v2, v3): the text of the product search box
    categories,            \* useState: the working copy of the categories
    originalCategories,    \* useState: the baseline of the categories
    displayedCategories,   \* useState (v2, v3): the categories the table shows
    loading,               \* useState
    isSaving,              \* useState: the busy flag of save
    error,                 \* useState: the message shown, as a record
    srvProducts,           \* the remote catalog: a set of products, one per sku
    srvCategories,         \* the remote catalog: a set of categories, one per name
    inflight,              \* mutation calls sent and not yet forgotten
    fetches,               \* fetchData / fetchInventory calls awaiting their response
    save,                  \* the continuation of the handleSaveChanges call in progress
    now,                   \* Date.now()
    modalRev,              \* the revision of the LocalizationModal component that runs
    editingProduct,        \* useState: the product handed to LocalizationModal (0 or 1)
    isLocalizationModalOpen, \* useState
    locModal,              \* the state of LocalizationModal and of its save in progress
    trRev,                 \* the revision of CategoryTranslationsModal that runs
    editingCategory,       \* useState: the category handed to the editor (0 or 1)
    isTranslationsModalOpen, \* useState
    trModal,               \* the state of CategoryTranslationsModal
    auth,                  \* authService: the signed-in user and localStorage
    gateway,               \* the graphqlRequest call in progress and what it sent
    shownQuery,            \* the lookup whose answer the product table shows
    activeTab,             \* useState (v3): "inventory" or "logs"
    eventLogs,             \* useState (v3): the events the log table shows
    eventNextToken,        \* useState (v3): continuation token of the log, 0 for null
    logSearchOrderId,      \* useState (v3): the text of the order filter box
    logFetches,            \* fetchLogs calls awaiting their response
    shownOrder,            \* the order filter whose answer the log table shows
    categorySearch,        \* useState (v2, v3): the text of the category search box
    categoryLookups,       \* handleCategorySearch calls awaiting their response
    ops,                   \* what is left of the run's bounds
    hist                   \* what the last save dispatched and what became of it

uiVars == <<products, originalProducts, productNextToken, selectedRows,
            isProductSearchActive, productSearch, categories, originalCategories,
            displayedCategories, loading, isSaving, error>>
envVars == <<srvProducts, srvCategories, inflight, fetches, save, now>>
modalVars == <<modalRev, editingProduct, isLocalizationModalOpen, locModal>>
\* the state of the components the Dashboard mounts
translationVars == <<trRev, editingCategory, isTranslationsModalOpen, trModal>>
\* the state of the services the components call
gatewayVars == <<auth, gateway>>
\* the state of the log tab and of the category search
viewVars == <<activeTab, eventLogs, eventNextToken, logSearchOrderId, logFetches,
              shownOrder, categorySearch, categoryLookups>>
componentVars == <<modalVars, translationVars, gatewayVars, shownQuery, viewVars>>
vars == <<variant, uiVars, envVars, componentVars, ops, hist>>

\* ----------------------------------------------------------- the catalog
\* a product as the remote side stores and returns it
SrvProduct(sku, category, qty) ==
    [sku |-> sku, category |-> category, imageUrl |-> "", productStatus |-> "ACTIVE",
     quantityInStock |-> Num(qty),
     localizations |-> <<[createDefaultLocalization EXCEPT !.productName = sku]>>]

SrvCategory(name) == [category |-> name, translations |-> <<>>]

RECURSIVE ProductListing(_, _)
\* the products of the catalog with a sku after position i of SkuOrder, in order
ProductListing(S, i) ==
    IF i >= Len(SkuOrder) THEN <<>>
    ELSE (IF \E r \in S : r.sku = SkuOrder[i + 1]
          THEN <<CHOOSE r \in S : r.sku = SkuOrder[i + 1]>> ELSE <<>>)
         \o ProductListing(S, i + 1)

RECURSIVE CategoryListing(_, _)
CategoryListing(S, i) ==
    IF i >= Len(CategoryOrder) THEN <<>>
    ELSE (IF \E r \in S : r.category = CategoryOrder[i + 1]
          THEN <<CHOOSE r \in S : r.category = CategoryOrder[i + 1]>> ELSE <<>>)
         \o CategoryListing(S, i + 1)

\* getAllProducts(limit, nextToken) answered from catalog S: a page of at most
\* PageLimit items after the token, and the token of the next page (0: exhausted).
\* A token is the SkuOrder position of the last item of the page before.
getAllProducts(S, token) ==
    LET rest == ProductListing(S, token)
        n == IF Len(rest) < PageLimit THEN Len(rest) ELSE PageLimit
        items == SubSeq(rest, 1, n)
    IN [items |-> items,
        nextToken |-> IF Len(rest) > n THEN Rank(SkuOrder, items[n].sku) ELSE 0]

\* getProductsBySku(skus) for a list of one sku: the products stored under it
getProductsBySku(S, sku) == ProductListing({r \in S : r.sku = sku}, 0)

\* getProductsByCategory(category, limit, nextToken): a page of the products of the
\* category
getProductsByCategory(S, category, token) ==
    getAllProducts({r \in S : r.category = category}, token)

\* searchProducts(search, limit, nextToken): a page of the products whose category
\* is the text searched for
searchProducts(S, search, token) ==
    getAllProducts({r \in S : r.category = search}, token)

\* getAllCategories(200): every category (the model has fewer than 200)
getAllCategories(S) == CategoryListing(S, 0)

\* --------------------------------------------------------------- records
\* a fetched product as fetchData / fetchInventory puts it into the state
FromServer(p) ==
    [id |-> NoId, sku |-> p.sku, category |-> p.category, imageUrl |-> p.imageUrl,
     productStatus |-> p.productStatus, quantityInStock |-> p.quantityInStock,
     localizations |-> IF Len(p.localizations) > 0 THEN p.localizations
                       ELSE <<createDefaultLocalization>>,
     isNew |-> FALSE, isDeleted |-> FALSE]

FromServerCategory(c) ==
    [category |-> c.category, translations |-> c.translations,
     isNew |-> FALSE, isDeleted |-> FALSE]

\* the row handleAddRow inserts
NewRow(tempId) ==
    [id |-> tempId, sku |-> "", category |-> "", imageUrl |-> "",
     productStatus |-> "ACTIVE", quantityInStock |-> Num(0),
     localizations |-> <<createDefaultLocalization>>,
     isNew |-> TRUE, isDeleted |-> FALSE]

\* const identifier = p.isNew ? p.id : p.sku
Identifier(p) == IF p.isNew THEN p.id ELSE p.sku

NoError == [kind |-> "", viol |-> {}, dup |-> {}, msgs |-> {}]

\* err.message of a failed mutation call
Message(call) == <<call.op, call.key>>

\* ---------------------------------------------------------- derived state
validCategoryNames ==
    {categories[i].category : i \in {j \in DOMAIN categories : ~categories[j].isDeleted}}

\* the skus that more than one non-deleted product with a truthy sku carries
duplicateSkuSet ==
    LET live == {i \in DOMAIN products : ~products[i].isDeleted /\ products[i].sku # ""}
    IN {products[i].sku : i \in {j \in live : \E k \in live : k # j /\ products[k].sku = products[j].sku}}

\* JSON.stringify of the working lists differs from that of the baselines
hasChanges == products # originalProducts \/ categories # originalCategories

\* the three checks handleSaveChanges makes before anything else
validationErrors ==
    LET missing == \E i \in DOMAIN products :
                       ~products[i].isDeleted /\ products[i].category = ""
        deleted == \E i \in DOMAIN products :
                       /\ ~products[i].isDeleted
                       /\ products[i].category # ""
                       /\ products[i].category \notin validCategoryNames
    IN [kind |-> "validation",
        viol |-> (IF missing THEN {"missing category"} ELSE {})
                 \cup (IF deleted THEN {"deleted category"} ELSE {})
                 \cup (IF duplicateSkuSet # {} THEN {"duplicate SKU"} ELSE {}),
        dup |-> duplicateSkuSet,
        msgs |-> {}]

\* ------------------------------------------------------ the save's calls
\* the bucket handleSaveChanges puts working category c into
CategoryBucket(c) ==
    LET original == FindFirst(originalCategories,
                        {j \in DOMAIN originalCategories :
                            originalCategories[j].category = c.category})
    IN IF c.isNew /\ ~c.isDeleted THEN "create"
       ELSE IF original # <<>> /\ ~original[1].isNew /\ c.isDeleted THEN "delete"
       ELSE IF /\ variant # "v1"
               /\ original # <<>> /\ ~original[1].isNew /\ ~c.isDeleted
               /\ c.translations # original[1].translations THEN "update"
       ELSE "none"

\* the bucket handleSaveChanges puts working product p into
ProductBucket(p) ==
    LET original == FindFirst(originalProducts,
                        {j \in DOMAIN originalProducts : originalProducts[j].sku = p.sku})
    IN IF original # <<>> /\ ~original[1].isNew /\ p.isDeleted THEN "delete"
       ELSE IF p.isNew /\ ~p.isDeleted THEN "create"
       ELSE IF original # <<>> /\ ~p.isNew /\ ~p.isDeleted /\ p # original[1] THEN "update"
       ELSE "none"

\* the input of createProduct / updateProduct built from working product p
ProductInput(p) ==
    [sku |-> p.sku, category |-> p.category, imageUrl |-> p.imageUrl,
     productStatus |-> p.productStatus, quantityInStock |-> parseInt(p.quantityInStock),
     localizations |-> p.localizations]

Call(op, key, prod, tr, src) ==
    [op |-> op, key |-> key, prod |-> prod, tr |-> tr, src |-> src,
     batch |-> 0, status |-> "pending"]

CategoryCall(i) ==
    LET c == categories[i]
        b == CategoryBucket(c)
    IN IF b = "create"
       THEN <<Call("createCategory", c.category, <<>>,
                   IF variant = "v1" THEN <<>> ELSE c.translations, <<"category", i>>)>>
       ELSE IF b = "delete"
       THEN <<Call("deleteCategory", c.category, <<>>, <<>>, <<"category", i>>)>>
       ELSE <<>>

ProductCall(i) ==
    LET p == products[i]
        b == ProductBucket(p)
    IN IF b = "delete"
       THEN <<Call("deleteProduct", p.sku, <<>>, <<>>, <<"product", i>>)>>
       ELSE IF b = "create"
       THEN <<Call("createProduct", p.sku, <<ProductInput(p)>>, <<>>, <<"product", i>>)>>
       ELSE IF b = "update"
       THEN <<Call("updateProduct", p.sku, <<ProductInput(p)>>, <<>>, <<"product", i>>)>>
       ELSE <<>>

RECURSIVE CategoryCalls(_)
\* categories.forEach(...) from index i on; it stops where apiService.updateCategory,
\* which apiService does not define, is called and throws
CategoryCalls(i) ==
    IF i > Len(categories) THEN [calls |-> <<>>, threw |-> FALSE]
    ELSE IF CategoryBucket(categories[i]) = "update"
    THEN [calls |-> <<>>, threw |-> TRUE]
    ELSE LET rest == CategoryCalls(i + 1)
         IN [calls |-> CategoryCall(i) \o rest.calls, threw |-> rest.threw]

RECURSIVE ProductCalls(_)
ProductCalls(i) ==
    IF i > Len(products) THEN <<>> ELSE ProductCall(i) \o ProductCalls(i + 1)

\* the mutations array of handleSaveChanges, and whether building it threw
BuildMutations ==
    LET cs == CategoryCalls(1)
    IN IF cs.threw THEN cs
       ELSE [calls |-> cs.calls \o ProductCalls(1), threw |-> FALSE]

\* ------------------------------------------------- the catalog's mutations
\* the catalog after mutation `call` has been carried out
ApplyProducts(S, call) ==
    IF call.op = "createProduct"
    THEN {r \in S : r.sku # call.key} \cup {call.prod[1]}
    ELSE IF call.op = "updateProduct"
    THEN {IF r.sku = call.key
          THEN (IF variant = "v1"
                THEN [call.prod[1] EXCEPT !.localizations = r.localizations]
                ELSE call.prod[1])
          ELSE r : r \in S}
    ELSE IF call.op = "deleteProduct"
    THEN {r \in S : r.sku # call.key}
    ELSE S

ApplyCategories(S, call) ==
    IF call.op = "createCategory"
    THEN {r \in S : r.category # call.key}
         \cup {[category |-> call.key, translations |-> call.tr]}
    ELSE IF call.op = "deleteCategory"
    THEN {r \in S : r.category # call.key}
    ELSE S

\* ----------------------------------------------------- save bookkeeping
\* the fetch call is no lookup of a search
NoQuery == [kind |-> "none", arg |-> ""]

IdleSave == [pc |-> "idle", batch |-> 0, rejected |-> <<>>,
             clSearch |-> FALSE, clCatLen |-> 0]

NoHist == [clicks |-> 0, outcome |-> "", sent |-> <<>>, failed |-> {},
           settled |-> "", done |-> FALSE]

\* a listing call that asks for products only when no search is active, even when
\* the search is being cleared
ListingUnlessSearching(token, clearing, fromSave, clSearch, clCatLen, clProducts) ==
    [token |-> token,
     clearing |-> clearing,
     fromSave |-> fromSave,
     reqProducts |-> IF variant = "v1" THEN TRUE ELSE ~clSearch,
     reqCategories |-> IF variant = "v1" THEN token = 0 ELSE clCatLen = 0,
     sentToken |-> token,
     append |-> token # 0,
     clProducts |-> IF token # 0 THEN clProducts ELSE <<>>,
     query |-> [kind |-> "none", arg |-> ""]]

\* ------------------------------------------------------------- listing
\* The call fetchData(productToken) (v1) or fetchInventory(productToken, null,
\* isClearingSearch) (v2, v3) as it waits for its two requests.  clSearch, clCatLen
\* and clProducts are isProductSearchActive, categories.length and products as the
\* closure that makes the call has them.
FetchCall(token, clearing, fromSave, clSearch, clCatLen, clProducts) ==
    LET append == token # 0 /\ ~clearing
    IN [token |-> token,
        clearing |-> clearing,
        fromSave |-> fromSave,
        reqProducts |-> IF variant = "v1" THEN TRUE ELSE (~clSearch \/ clearing),
        reqCategories |-> IF variant = "v1" THEN token = 0 ELSE clCatLen = 0,
        sentToken |-> IF clearing THEN 0 ELSE token,
        append |-> append,
        clProducts |-> IF append THEN clProducts ELSE <<>>,
        query |-> NoQuery]

\* String.prototype.trim on the texts the user types
trim(s) == CASE s = " " -> ""
             [] s = " Tools " -> "Tools"
             [] OTHER -> s

\* what the user types into the product search box
SearchInputs == {" ", "SKU:A1", "Category:Toys"}

\* the lookup handleProductSearch chooses for a trimmed, non-empty search string:
\* /^SKU:(.*)/i with one sku, /^(Category|Cat):(.*)/i, or else the full-text search
Query(searchString) ==
    CASE searchString = "SKU:A1" -> [kind |-> "sku", arg |-> "A1"]
      [] searchString = "Category:Toys" -> [kind |-> "category", arg |-> "Toys"]
      [] OTHER -> [kind |-> "text", arg |-> searchString]

\* The lookup of handleProductSearch(e, nextToken) as it waits for its response,
\* together with the call fetchInventory(nextToken, productResults) that follows it:
\* that call sends no product request, and a category request only when the closure
\* has no category.
SearchCall(searchString, token, clCatLen, clProducts) ==
    [token |-> token,
     clearing |-> FALSE,
     fromSave |-> FALSE,
     reqProducts |-> FALSE,
     reqCategories |-> clCatLen = 0,
     sentToken |-> token,
     append |-> token # 0,
     clProducts |-> IF token # 0 THEN clProducts ELSE <<>>,
     query |-> Query(searchString)]

Remove(s, i) == SubSeq(s, 1, i - 1) \o SubSeq(s, i + 1, Len(s))

\* The response of listing call i arrives: every request of the call succeeded (ok),
\* or one failed.  For a search, the failed request is the lookup itself, and the
\* category request of the fetchInventory call that follows a lookup is answered
\* together with it.
FetchRespond(i, ok) ==
    LET f == fetches[i]
        isSearch == f.query.kind # "none"
        page == CASE f.query.kind = "sku" ->
                         [items |-> getProductsBySku(srvProducts, f.query.arg),
                          nextToken |-> 0]
                  [] f.query.kind = "category" ->
                         getProductsByCategory(srvProducts, f.query.arg, f.sentToken)
                  [] f.query.kind = "text" ->
                         searchProducts(srvProducts, f.query.arg, f.sentToken)
                  [] OTHER -> IF f.reqProducts
                              THEN getAllProducts(srvProducts, f.sentToken)
                              ELSE [items |-> <<>>, nextToken |-> 0]
        fetchedProducts == [k \in DOMAIN page.items |-> FromServer(page.items[k])]
        newProducts == IF f.append THEN f.clProducts \o fetchedProducts
                       ELSE fetchedProducts
        listed == getAllCategories(srvCategories)
        fetchedCategories == [k \in DOMAIN listed |-> FromServerCategory(listed[k])]
    IN /\ ok \/ ((f.reqProducts \/ f.reqCategories \/ isSearch) /\ ops.failures > 0)
       /\ ops' = IF ok THEN ops ELSE [ops EXCEPT !.failures = @ - 1]
       /\ fetches' = Remove(fetches, i)
       /\ loading' = FALSE
       /\ IF ok
          THEN /\ products' = newProducts
               /\ originalProducts' = newProducts
               /\ productNextToken' = page.nextToken
               /\ selectedRows' = IF variant = "v1" THEN selectedRows ELSE {}
               /\ isProductSearchActive' = isSearch
               /\ IF f.reqCategories
                  THEN /\ categories' = fetchedCategories
                       /\ originalCategories' = fetchedCategories
                       /\ displayedCategories' =
                              IF variant = "v1" THEN displayedCategories
                              ELSE fetchedCategories
                  ELSE UNCHANGED <<categories, originalCategories, displayedCategories>>
               /\ error' = IF isSearch THEN NoError ELSE error
          ELSE IF isSearch /\ variant = "v2"
          THEN \* the catch of handleProductSearch empties the table
               /\ error' = [NoError EXCEPT !.kind = "search"]
               /\ products' = <<>>
               /\ originalProducts' = <<>>
               /\ isProductSearchActive' = TRUE
               /\ productNextToken' = 0
               /\ UNCHANGED <<selectedRows, categories, originalCategories,
                              displayedCategories>>
          ELSE /\ error' = [NoError EXCEPT !.kind = IF isSearch THEN "search" ELSE "fetch"]
               /\ UNCHANGED <<products, originalProducts, productNextToken, selectedRows,
                              isProductSearchActive, categories, originalCategories,
                              displayedCategories>>
       /\ IF f.fromSave
          THEN /\ isSaving' = FALSE
               /\ save' = [save EXCEPT !.pc = "idle"]
               /\ hist' = [hist EXCEPT !.done = TRUE]
          ELSE UNCHANGED <<isSaving, save, hist>>
       /\ shownQuery' = IF ok \/ (isSearch /\ variant = "v2") THEN f.query ELSE shownQuery
       /\ UNCHANGED <<variant, modalVars, translationVars, gatewayVars, viewVars, productSearch,
                      srvProducts, srvCategories, inflight, now>>

\* a Load More button that is disabled only while a request is loading
DisabledWhileLoading(token) == loading

\* disabled={!productNextToken || loading} of the Load More button, and
\* disabled={!eventNextToken || loading} of the Load More Events button
LoadMoreDisabled(token) == token = 0 \/ loading

\* the Load More button of the inventory tab: the next page of the listing, or of the
\* search that is active
LoadMore ==
    /\ ops.events > 0
    /\ activeTab = "inventory"
    /\ ~LoadMoreDisabled(productNextToken) /\ ~isSaving
    /\ IF isProductSearchActive
       THEN IF trim(productSearch) = "" /\ variant = "v2"
            THEN UNCHANGED <<fetches, loading, error>>
            ELSE /\ fetches' = Append(fetches, SearchCall(trim(productSearch),
                                                          productNextToken,
                                                          Len(categories), products))
                 /\ loading' = TRUE
                 /\ error' = IF variant = "v2" THEN NoError ELSE error
       ELSE /\ fetches' = Append(fetches, FetchCall(productNextToken, FALSE, FALSE,
                                                    isProductSearchActive,
                                                    Len(categories), products))
            /\ loading' = TRUE
            /\ error' = NoError
    /\ ops' = [ops EXCEPT !.events = @ - 1]
    /\ hist' = IF hist.done THEN [NoHist EXCEPT !.clicks = hist.clicks] ELSE hist
    /\ UNCHANGED <<variant, componentVars, products, originalProducts, productNextToken, selectedRows,
                   isProductSearchActive, productSearch, categories, originalCategories,
                   displayedCategories, isSaving, srvProducts, srvCategories, inflight,
                   save, now>>

\* The user types `text` into the product search box (setProductSearch) and presses
\* Search: handleProductSearch() of v2 and v3.  An empty search string reloads the
\* unfiltered listing from its first page.
handleProductSearch(text) ==
    LET searchString == trim(text)
    IN /\ variant # "v1"
       /\ ops.events > 0
       /\ ~loading /\ ~isSaving
       /\ productSearch' = text
       /\ fetches' = Append(fetches,
              IF searchString = ""
              THEN FetchCall(0, TRUE, FALSE, isProductSearchActive, Len(categories),
                             products)
              ELSE SearchCall(searchString, 0, Len(categories), products))
       /\ loading' = TRUE
       /\ error' = IF searchString = "" \/ variant = "v2" THEN NoError ELSE error
       /\ ops' = [ops EXCEPT !.events = @ - 1]
       /\ hist' = IF hist.done THEN [NoHist EXCEPT !.clicks = hist.clicks] ELSE hist
       /\ UNCHANGED <<variant, componentVars, products, originalProducts, productNextToken, selectedRows,
                      isProductSearchActive, categories, originalCategories,
                      displayedCategories, isSaving, srvProducts, srvCategories,
                      inflight, save, now>>

\* what the user types into the product search box when only the search is looked at
SearchTexts == SearchInputs \cup {"", "Toys"}

\* the user types `value` into the product search box and presses no key that
\* searches: onChange of the input
setProductSearch(value) ==
    /\ variant # "v1"
    /\ ops.events > 0
    /\ ~loading /\ ~isSaving
    /\ value # productSearch
    /\ productSearch' = value
    /\ ops' = [ops EXCEPT !.events = @ - 1]
    /\ UNCHANGED <<variant, componentVars, products, originalProducts, productNextToken,
                   selectedRows, isProductSearchActive, categories, originalCategories,
                   displayedCategories, loading, isSaving, error, envVars, hist>>

\* the Clear button, which is shown while a search is active: the search box is
\* emptied, the search ends, and fetchInventory(null, null, true) of the render that
\* drew the button is called
clearProductSearch ==
    /\ variant # "v1"
    /\ ops.events > 0
    /\ ~loading /\ ~isSaving
    /\ isProductSearchActive
    /\ productSearch' = ""
    /\ isProductSearchActive' = FALSE
    /\ fetches' = Append(fetches, FetchCall(0, TRUE, FALSE, isProductSearchActive,
                                            Len(categories), products))
    /\ loading' = TRUE
    /\ error' = NoError
    /\ ops' = [ops EXCEPT !.events = @ - 1]
    /\ hist' = IF hist.done THEN [NoHist EXCEPT !.clicks = hist.clicks] ELSE hist
    /\ UNCHANGED <<variant, componentVars, products, originalProducts, productNextToken,
                   selectedRows, categories, originalCategories, displayedCategories,
                   isSaving, srvProducts, srvCategories, inflight, save, now>>

\* ----------------------------------------------------------- the event log
\* The log tab of v3.  The events the remote side has logged, in the order it lists
\* them; they do not change during a run.
OrderEvents ==
    <<[eventId |-> "E1", orderId |-> "O1"], [eventId |-> "E2", orderId |-> "O2"],
      [eventId |-> "E3", orderId |-> "O1"]>>

\* what the user types into the order filter box
OrderInputs == {"", "O1", "O2"}

\* getOrderEvents(limit, nextToken, orderId): a page of at most PageLimit events after
\* the token, the events of the order when an order is given, and the token of the
\* next page (0: exhausted).  A token is the position of the last event of the page
\* before.
getOrderEvents(token, orderId) ==
    LET hits == {k \in DOMAIN OrderEvents :
                    k > token /\ (orderId = "" \/ OrderEvents[k].orderId = orderId)}
        first == {k \in hits : Cardinality({j \in hits : j < k}) < PageLimit}
        last == CHOOSE k \in first : \A j \in first : j <= k
    IN [items |-> Filter(OrderEvents, first),
        nextToken |-> IF hits # first THEN last ELSE 0]

\* the call fetchLogs(token, isNewSearch) of the render that is on screen, as it waits
\* for its response: its request carries the order filter of that render, and its
\* closure holds the events of that render
LogCall(token, isNewSearch) ==
    [token |-> token,
     orderId |-> logSearchOrderId,
     isNewSearch |-> isNewSearch,
     clLogs |-> IF isNewSearch THEN <<>> ELSE eventLogs]

\* what fetchLogs(token, isNewSearch) does before its await
fetchLogs(token, isNewSearch) ==
    /\ logFetches' = Append(logFetches, LogCall(token, isNewSearch))
    /\ loading' = TRUE
    /\ error' = NoError

\* a tab button is clicked, and the effect on [activeTab] runs: the log tab fetches
\* the first page of the log, the inventory tab fetches the listing when it shows no
\* product
setActiveTab(tab) ==
    /\ variant = "v3"
    /\ ops.events > 0
    /\ ~loading /\ ~isSaving
    /\ tab # activeTab
    /\ activeTab' = tab
    /\ IF tab = "logs"
       THEN /\ fetchLogs(0, TRUE)
            /\ UNCHANGED fetches
       ELSE IF products = <<>>
       THEN /\ fetches' = Append(fetches, FetchCall(0, FALSE, FALSE, isProductSearchActive,
                                                    Len(categories), products))
            /\ loading' = TRUE
            /\ error' = NoError
            /\ UNCHANGED logFetches
       ELSE UNCHANGED <<fetches, logFetches, loading, error>>
    /\ ops' = [ops EXCEPT !.events = @ - 1]
    /\ UNCHANGED <<variant, modalVars, translationVars, gatewayVars, shownQuery, products,
                   originalProducts, productNextToken, selectedRows,
                   isProductSearchActive, productSearch, categories, originalCategories,
                   displayedCategories, isSaving, srvProducts, srvCategories, inflight,
                   save, now, eventLogs, eventNextToken, logSearchOrderId, shownOrder,
                   categorySearch, categoryLookups, hist>>

\* what the steps of the log tab leave alone
LogFrame ==
    UNCHANGED <<variant, modalVars, translationVars, gatewayVars, shownQuery, products,
                originalProducts, productNextToken, selectedRows, isProductSearchActive,
                productSearch, categories, originalCategories, displayedCategories,
                isSaving, envVars, activeTab, categorySearch, categoryLookups, hist>>

\* what the buttons and the box of the log tab share
LogTabUser ==
    /\ variant = "v3"
    /\ activeTab = "logs"
    /\ ops.events > 0
    /\ ~isSaving
    /\ ops' = [ops EXCEPT !.events = @ - 1]
    /\ LogFrame

\* the user types `value` into the order filter box: onChange of the input
setLogSearchOrderId(value) ==
    /\ LogTabUser
    /\ ~loading
    /\ value # logSearchOrderId
    /\ logSearchOrderId' = value
    /\ UNCHANGED <<eventLogs, eventNextToken, logFetches, shownOrder, loading, error>>

\* the Filter button
handleLogSearch ==
    /\ LogTabUser
    /\ ~loading
    /\ fetchLogs(0, TRUE)
    /\ UNCHANGED <<eventLogs, eventNextToken, logSearchOrderId, shownOrder>>

\* the Clear button, which is shown while the order filter box holds a text:
\* setLogSearchOrderId('') and then fetchLogs(null, true) of the render that drew the
\* button
clearLogSearch ==
    /\ LogTabUser
    /\ ~loading
    /\ logSearchOrderId # ""
    /\ logSearchOrderId' = ""
    /\ fetchLogs(0, TRUE)
    /\ UNCHANGED <<eventLogs, eventNextToken, shownOrder>>

\* the Load More Events button
LoadMoreEvents ==
    /\ LogTabUser
    /\ ~LoadMoreDisabled(eventNextToken)
    /\ fetchLogs(eventNextToken, FALSE)
    /\ UNCHANGED <<eventLogs, eventNextToken, logSearchOrderId, shownOrder>>

\* the response of fetchLogs call i arrives: a page of events (ok), or a failure
LogsRespond(i, ok) ==
    LET f == logFetches[i]
        response == getOrderEvents(f.token, f.orderId)
    IN /\ ok \/ ops.failures > 0
       /\ ops' = IF ok THEN ops ELSE [ops EXCEPT !.failures = @ - 1]
       /\ logFetches' = Remove(logFetches, i)
       /\ loading' = FALSE
       /\ IF ok
          THEN /\ eventLogs' = f.clLogs \o response.items
               /\ eventNextToken' = response.nextToken
               /\ shownOrder' = f.orderId
               /\ UNCHANGED error
          ELSE /\ error' = [NoError EXCEPT !.kind = "logs"]
               /\ UNCHANGED <<eventLogs, eventNextToken, shownOrder>>
       /\ UNCHANGED logSearchOrderId
       /\ LogFrame

\* ------------------------------------------------------- product handlers
\* What every user event shares.  The Spinner overlay covers the page while
\* loading || isSaving, so the page takes no user event then.  The record of the
\* last save is dropped at the first user event after that save has ended.
UserFrame ==
    /\ ~loading /\ ~isSaving /\ ~isLocalizationModalOpen /\ ~isTranslationsModalOpen
    /\ hist' = IF hist.done THEN [NoHist EXCEPT !.clicks = hist.clicks] ELSE hist
    /\ UNCHANGED <<variant, componentVars, srvProducts, srvCategories, inflight, fetches, save>>

\* the Add Product button; `tick` tells whether Date.now() has advanced since the
\* last row was added
handleAddRow(tick) ==
    /\ ops.events > 0
    /\ validCategoryNames # {}
    /\ Cardinality({i \in DOMAIN products : products[i].isNew}) < MaxNew
    /\ now' = IF tick THEN now + 1 ELSE now
    /\ products' = <<NewRow(TempId(now'))>> \o products
    /\ ops' = [ops EXCEPT !.events = @ - 1]
    /\ UserFrame
    /\ UNCHANGED <<originalProducts, productNextToken, selectedRows, isProductSearchActive, productSearch,
                   categories, originalCategories, displayedCategories, loading, isSaving,
                   error>>

\* the Remove button of new row i
handleRemoveNewRow(i) ==
    /\ ops.events > 0
    /\ products[i].isNew /\ ~products[i].isDeleted
    /\ products' = Filter(products, {j \in DOMAIN products : products[j].id # products[i].id})
    /\ ops' = [ops EXCEPT !.events = @ - 1]
    /\ UserFrame
    /\ UNCHANGED <<originalProducts, productNextToken, selectedRows, isProductSearchActive, productSearch,
                   categories, originalCategories, displayedCategories, loading, isSaving,
                   error, now>>

\* the checkbox of row i
handleSelectionChange(i) ==
    LET identifier == Identifier(products[i])
    IN /\ ops.events > 0
       /\ ~products[i].isDeleted
       /\ selectedRows' = IF identifier \in selectedRows
                          THEN selectedRows \ {identifier}
                          ELSE selectedRows \cup {identifier}
       /\ ops' = [ops EXCEPT !.events = @ - 1]
       /\ UserFrame
       /\ UNCHANGED <<products, originalProducts, productNextToken, isProductSearchActive, productSearch,
                   categories, originalCategories, displayedCategories, loading,
                      isSaving, error, now>>

\* the Delete Selected button
handleDeleteRows ==
    /\ ops.events > 0
    /\ selectedRows # {}
    /\ products' = [i \in DOMAIN products |->
                       IF Identifier(products[i]) \in selectedRows
                       THEN [products[i] EXCEPT !.isDeleted = TRUE]
                       ELSE products[i]]
    /\ selectedRows' = {}
    /\ ops' = [ops EXCEPT !.events = @ - 1]
    /\ UserFrame
    /\ UNCHANGED <<originalProducts, productNextToken, isProductSearchActive, productSearch,
                   categories, originalCategories, displayedCategories, loading, isSaving,
                   error, now>>

\* the values the control of `field` in row i can change to
FieldInputs(i, field) ==
    LET p == products[i]
    IN CASE field = "sku" -> IF p.isNew THEN (SkuInputs \cup {""}) \ {p.sku} ELSE {}
         [] field = "category" -> ({""} \cup validCategoryNames) \ {p.category}
         [] field = "imageUrl" -> ImageInputs \ {p.imageUrl}
         [] field = "productStatus" -> PRODUCT_STATUSES \ {p.productStatus}
         [] field = "quantityInStock" -> StockInputs \ {p.quantityInStock}

Fields == {"sku", "category", "imageUrl", "productStatus", "quantityInStock"}

SetField(p, field, value) ==
    CASE field = "sku" -> [p EXCEPT !.sku = value]
      [] field = "category" -> [p EXCEPT !.category = value]
      [] field = "imageUrl" -> [p EXCEPT !.imageUrl = value]
      [] field = "productStatus" -> [p EXCEPT !.productStatus = value]
      [] field = "quantityInStock" -> [p EXCEPT !.quantityInStock = value]

\* handleInputChange(identifier, field, value), called by a control of row i
handleInputChange(i, field, value) ==
    LET identifier == Identifier(products[i])
    IN /\ ops.events > 0
       /\ ~products[i].isDeleted
       /\ value \in FieldInputs(i, field)
       /\ products' = [j \in DOMAIN products |->
                          IF Identifier(products[j]) # identifier THEN products[j]
                          ELSE SetField(products[j], field, value)]
       /\ ops' = [ops EXCEPT !.events = @ - 1]
       /\ UserFrame
       /\ UNCHANGED <<originalProducts, productNextToken, selectedRows,
                      isProductSearchActive, productSearch,
                   categories, originalCategories,
                      displayedCategories, loading, isSaving, error, now>>

\* ------------------------------------------------------ category handlers
\* a comparison key that tells upper case from lower case
caseSensitive(name) == name

\* String.prototype.toLowerCase on the names of the model
toLowerCase(name) ==
    CASE name = "Garden" -> "garden"
      [] name = "Tools" -> "tools"
      [] name = "Toys" -> "toys"
      [] OTHER -> name

\* String.prototype.includes on the lower-case names and search texts of the model
includes(s, searchString) ==
    CASE searchString = "" -> TRUE
      [] searchString = "to" -> s \in {"tools", "toys"}
      [] OTHER -> s = searchString

\* c.isDeleted, which is undefined, and so falsy, on a category as the remote side
\* returns it
isDeleted(c) == "isDeleted" \in DOMAIN c /\ c.isDeleted

\* the Add Category button with newCategoryName = name
handleAddCategory(name) ==
    LET trimmedName == trim(name)
        newCat == [category |-> trimmedName, translations |-> <<>>,
                   isNew |-> TRUE, isDeleted |-> FALSE]
        rejected ==
            \/ trimmedName = ""
            \/ \E i \in DOMAIN categories :
                   /\ toLowerCase(categories[i].category) = toLowerCase(trimmedName)
                   /\ ~categories[i].isDeleted
    IN /\ ops.events > 0
       /\ IF rejected
          THEN UNCHANGED <<categories, displayedCategories>>
          ELSE /\ categories' = <<newCat>> \o categories
               /\ displayedCategories' =
                      IF variant = "v1" THEN displayedCategories
                      ELSE LET shown == <<newCat>> \o displayedCategories
                           IN Filter(shown,
                                     {j \in DOMAIN shown :
                                          includes(toLowerCase(shown[j].category),
                                                   toLowerCase(categorySearch))})
       /\ ops' = [ops EXCEPT !.events = @ - 1]
       /\ UserFrame
       /\ UNCHANGED <<products, originalProducts, productNextToken, selectedRows,
                      isProductSearchActive, productSearch,
                   originalCategories, loading, isSaving,
                      error, now>>

\* the categories whose row, with its Delete button, the table shows
ShownCategories ==
    IF variant = "v1"
    THEN {categories[i].category :
              i \in {j \in DOMAIN categories : ~categories[j].isDeleted}}
    ELSE {displayedCategories[i].category :
              i \in {j \in DOMAIN displayedCategories : ~isDeleted(displayedCategories[j])}}

\* the Delete button of category `name`, the confirm dialog answered with OK
handleDeleteCategory(name) ==
    /\ ops.events > 0
    /\ name \in ShownCategories
    /\ categories' = [i \in DOMAIN categories |->
                         IF categories[i].category = name
                         THEN [categories[i] EXCEPT !.isDeleted = TRUE]
                         ELSE categories[i]]
    /\ displayedCategories' =
           IF variant = "v1" THEN displayedCategories
           ELSE Filter(displayedCategories,
                       {j \in DOMAIN displayedCategories :
                            displayedCategories[j].category # name})
    /\ ops' = [ops EXCEPT !.events = @ - 1]
    /\ UserFrame
    /\ UNCHANGED <<products, originalProducts, productNextToken, selectedRows,
                   isProductSearchActive, productSearch,
                   originalCategories, loading, isSaving,
                   error, now>>

\* ------------------------------------------------------ the category search
\* what the user types into the category search box
CategorySearchInputs == {"", "to", "Tools"}

\* searchCategories(search): the categories of the catalog whose name holds the text
\* searched for, whatever its case, as the remote side returns them
searchCategories(S, search) ==
    CategoryListing({r \in S : includes(toLowerCase(r.category), toLowerCase(search))}, 0)

\* a search result that is shown as the remote side returned it, even when the
\* working copy holds the category
freshCopy(local, result) == result

\* categoryMap.get(result.category) || result, for the categories `local` of the
\* closure
workingCopy(local, result) ==
    LET hits == {j \in DOMAIN local : local[j].category = result.category}
    IN IF hits = {} THEN result
       ELSE local[CHOOSE j \in hits : \A k \in hits : k <= j]

\* the list handleCategorySearch shows for the search results: each result replaced
\* by the working copy, and of the deleted ones only those whose name holds the text
\* searched for
mergeResults(local, searchResults, searchString) ==
    LET merged == [k \in DOMAIN searchResults |-> workingCopy(local, searchResults[k])]
    IN Filter(merged,
              {k \in DOMAIN merged :
                   \/ ~isDeleted(merged[k])
                   \/ includes(toLowerCase(merged[k].category),
                               toLowerCase(searchString))})

\* what the controls of the category search share
CategorySearchUser ==
    /\ variant # "v1"
    /\ activeTab = "inventory"
    /\ ops.events > 0
    /\ ~loading /\ ~isSaving /\ ~isLocalizationModalOpen /\ ~isTranslationsModalOpen
    /\ ops' = [ops EXCEPT !.events = @ - 1]
    /\ UNCHANGED <<variant, modalVars, translationVars, gatewayVars, shownQuery, products,
                   originalProducts, productNextToken, selectedRows,
                   isProductSearchActive, productSearch, categories, originalCategories,
                   isSaving, envVars, activeTab, eventLogs, eventNextToken,
                   logSearchOrderId, logFetches, shownOrder, hist>>

\* the user types `value` into the category search box: onChange of the input
setCategorySearch(value) ==
    /\ CategorySearchUser
    /\ value # categorySearch
    /\ categorySearch' = value
    /\ UNCHANGED <<displayedCategories, categoryLookups, loading, error>>

\* the Search button of the categories, or Enter in the box: handleCategorySearch up
\* to its await.  v2 clears the message first; an empty search string shows every
\* category of the working copy again.
handleCategorySearch ==
    LET searchString == trim(categorySearch)
    IN /\ CategorySearchUser
       /\ error' = IF variant = "v2" THEN NoError ELSE error
       /\ IF searchString = ""
          THEN /\ displayedCategories' = categories
               /\ UNCHANGED <<categoryLookups, loading>>
          ELSE /\ categoryLookups' = Append(categoryLookups,
                                            [search |-> searchString,
                                             clCategories |-> categories])
               /\ loading' = TRUE
               /\ UNCHANGED displayedCategories
       /\ UNCHANGED categorySearch

\* the Clear button of the category search, which is shown while the box holds a text
clearCategorySearch ==
    /\ CategorySearchUser
    /\ categorySearch # ""
    /\ categorySearch' = ""
    /\ displayedCategories' = categories
    /\ UNCHANGED <<categoryLookups, loading, error>>

\* the response of category search i arrives: the results (ok), or a failure, after
\* which the table shows no category
CategoryLookupRespond(i, ok) ==
    LET f == categoryLookups[i]
    IN /\ ok \/ ops.failures > 0
       /\ ops' = IF ok THEN ops ELSE [ops EXCEPT !.failures = @ - 1]
       /\ categoryLookups' = Remove(categoryLookups, i)
       /\ loading' = FALSE
       /\ IF ok
          THEN /\ displayedCategories' =
                      mergeResults(f.clCategories, searchCategories(srvCategories, f.search),
                                   f.search)
               /\ UNCHANGED error
          ELSE /\ displayedCategories' = <<>>
               /\ error' = [NoError EXCEPT !.kind = "categorySearch"]
       /\ UNCHANGED <<variant, modalVars, translationVars, gatewayVars, shownQuery,
                      products, originalProducts, productNextToken, selectedRows,
                      isProductSearchActive, productSearch, categories,
                      originalCategories, isSaving, envVars, activeTab, eventLogs,
                      eventNextToken, logSearchOrderId, logFetches, shownOrder,
                      categorySearch, hist>>

\* -------------------------------------------------------------- the save
\* the Save All Changes button; `confirmed` is the answer to the confirm dialog
handleSaveChanges(confirmed) ==
    LET errs == validationErrors
        m == BuildMutations
        batch == hist.clicks + 1
        calls == [k \in DOMAIN m.calls |-> [m.calls[k] EXCEPT !.batch = batch]]
        early == variant \in {"v1", "v2"} /\ calls = <<>>
        h == [NoHist EXCEPT !.clicks = batch]
    IN /\ ops.saves > 0
       /\ hasChanges /\ ~isSaving
       /\ ~loading
       /\ ops' = [ops EXCEPT !.saves = @ - 1]
       /\ IF errs.viol # {}
          THEN /\ error' = errs
               /\ hist' = [h EXCEPT !.outcome = "blocked", !.done = TRUE]
               /\ UNCHANGED <<isSaving, inflight, save>>
          ELSE IF ~confirmed
          THEN /\ error' = NoError
               /\ hist' = [h EXCEPT !.outcome = "cancelled", !.done = TRUE]
               /\ UNCHANGED <<isSaving, inflight, save>>
          ELSE /\ error' = NoError
               /\ inflight' = inflight \o calls
               /\ isSaving' = ~(early /\ ~m.threw)
               /\ hist' = [h EXCEPT !.sent = calls,
                                    !.done = early /\ ~m.threw,
                                    !.outcome = IF m.threw THEN "threw"
                                                ELSE IF early THEN "nothing to do"
                                                ELSE "dispatched"]
               /\ save' = IF m.threw THEN [IdleSave EXCEPT !.pc = "threw", !.batch = batch]
                          ELSE IF early THEN save
                          ELSE [pc |-> "mutating", batch |-> batch, rejected |-> <<>>,
                                clSearch |-> isProductSearchActive,
                                clCatLen |-> Len(categories)]
       /\ UNCHANGED <<variant, componentVars, products, originalProducts, productNextToken, selectedRows,
                      isProductSearchActive, productSearch,
                   categories, originalCategories,
                      displayedCategories, loading, srvProducts, srvCategories, fetches,
                      now>>

\* the remote side answers mutation call i: carried out (ok) or refused
ServerRespond(i, ok) ==
    LET call == inflight[i]
        awaited == save.pc = "mutating" /\ call.batch = save.batch
    IN /\ call.status = "pending"
       /\ ok \/ ops.failures > 0
       /\ ops' = IF ok THEN ops ELSE [ops EXCEPT !.failures = @ - 1]
       /\ srvProducts' = IF ok THEN ApplyProducts(srvProducts, call) ELSE srvProducts
       /\ srvCategories' = IF ok THEN ApplyCategories(srvCategories, call) ELSE srvCategories
       /\ inflight' = IF awaited
                      THEN [inflight EXCEPT ![i].status = IF ok THEN "ok" ELSE "failed"]
                      ELSE Remove(inflight, i)
       /\ save' = IF awaited /\ ~ok /\ save.rejected = <<>>
                  THEN [save EXCEPT !.rejected = <<Message(call)>>]
                  ELSE save
       /\ hist' = IF ~ok /\ call.batch = hist.clicks
                  THEN [hist EXCEPT !.failed = @ \cup {Message(call)}]
                  ELSE hist
       /\ UNCHANGED <<variant, componentVars, uiVars, fetches, now>>

\* the calls of the save's batch that are still awaited by nobody once it has settled
Orphans == Filter(inflight, {j \in DOMAIN inflight : inflight[j].status = "pending"})

\* a refetch that handleSaveChanges starts and does not await
RefetchNotAwaited == FetchCall(0, FALSE, FALSE, save.clSearch, save.clCatLen, <<>>)

\* the refetch `await fetchData()` / `await fetchInventory()` of handleSaveChanges
Refetch == FetchCall(0, FALSE, TRUE, save.clSearch, save.clCatLen, <<>>)

\* Promise.all(mutations) fulfils: every call of the batch has succeeded
SaveFulfilled ==
    /\ save.pc = "mutating"
    /\ save.rejected = <<>>
    /\ \A j \in DOMAIN inflight : inflight[j].batch = save.batch => inflight[j].status = "ok"
    /\ inflight' = Orphans
    /\ fetches' = Append(fetches, Refetch)
    /\ loading' = TRUE
    /\ error' = NoError
    /\ save' = [save EXCEPT !.pc = "refetch"]
    /\ hist' = [hist EXCEPT !.settled = "fulfilled"]
    /\ UNCHANGED <<variant, componentVars, products, originalProducts, productNextToken, selectedRows,
                   isProductSearchActive, productSearch,
                   categories, originalCategories,
                   displayedCategories, isSaving, srvProducts, srvCategories, now, ops>>

\* Promise.all(mutations) rejects with the first rejection: the catch block, then finally
SaveRejected ==
    /\ save.pc = "mutating"
    /\ save.rejected # <<>>
    /\ inflight' = Orphans
    /\ IF variant = "v3"
       THEN /\ error' = [NoError EXCEPT !.kind = "save", !.msgs = {save.rejected[1]}]
            /\ isSaving' = FALSE
            /\ save' = [save EXCEPT !.pc = "idle"]
            /\ hist' = [hist EXCEPT !.settled = "rejected", !.done = TRUE]
            /\ UNCHANGED <<fetches, loading>>
       ELSE \* setError(`Save failed ...`) and then fetchData(), which calls setError('')
            /\ error' = NoError
            /\ fetches' = Append(fetches, Refetch)
            /\ loading' = TRUE
            /\ save' = [save EXCEPT !.pc = "refetch"]
            /\ hist' = [hist EXCEPT !.settled = "rejected"]
            /\ UNCHANGED isSaving
    /\ UNCHANGED <<variant, componentVars, products, originalProducts, productNextToken, selectedRows,
                   isProductSearchActive, productSearch,
                   categories, originalCategories,
                   displayedCategories, srvProducts, srvCategories, now, ops>>

\* ------------------------------------------------ the localization editor
\* The two revisions of LocalizationModal: m1 = src/unnamed/part_002 696-877,
\* m2 = src/unnamed/part_002 878-1104.  The price, currency and description boxes
\* are left alone, and the categoryText of m1 is left out.
ModalRevisions == {"m1", "m2"}

\* what the user types into the language, country and product name boxes
LangInputs == {"en", "fr"}
CountryInputs == {"us"}
NameInputs == {"N"}

\* the rows the editor may hold
MaxLocs == 2

\* the _tempId of a row that has none
NoTempId == <<>>

\* a localization of the product as deepCopy(product.localizations) gives it
LocRow(l) ==
    [lang |-> l.lang, country |-> l.country, productName |-> l.productName,
     description |-> l.description, price |-> l.price, currency |-> l.currency,
     tempId |-> NoTempId]

LocRows(p) == [k \in DOMAIN p.localizations |-> LocRow(p.localizations[k])]

\* the row handleAddLocalization appends at clock value n
createNewLocalization(n) ==
    [lang |-> "", country |-> "", productName |-> "", description |-> "",
     price |-> 0, currency |-> "USD", tempId |-> <<"NEW_LOC", n>>]

\* ({ _tempId, ...loc }) => ({ ...loc, price: parseFloat(loc.price) || 0 }) on a row
\* whose price is a number
Cleaned(row) ==
    [lang |-> row.lang, country |-> row.country, productName |-> row.productName,
     description |-> row.description, price |-> row.price, currency |-> row.currency]

CleanedAll(rows) == [k \in DOMAIN rows |-> Cleaned(rows[k])]

SameKey(a, b) == a.lang = b.lang /\ a.country = b.country

ClosedModal ==
    [localizations |-> <<>>, originalLocalizations |-> <<>>, isSaving |-> FALSE,
     error |-> "", pc |-> "idle", calls |-> <<>>, final |-> <<>>]

\* a call of the editor to the remote catalog
LocCall(op, sku, locs) ==
    [op |-> op, sku |-> sku, locs |-> locs, status |-> "pending", result |-> <<>>]

\* the remote catalog stores a localization under its (lang, country)
Upsert(locs, l) ==
    IF \E k \in DOMAIN locs : SameKey(locs[k], l)
    THEN [k \in DOMAIN locs |-> IF SameKey(locs[k], l) THEN l ELSE locs[k]]
    ELSE Append(locs, l)

RECURSIVE UpsertAll(_, _)
UpsertAll(locs, ls) ==
    IF ls = <<>> THEN locs ELSE UpsertAll(Upsert(locs, Head(ls)), Tail(ls))

\* addLocalization / updateLocalization / removeLocalization applied to catalog S
ApplyLocalization(S, call) ==
    {IF r.sku # call.sku THEN r
     ELSE [r EXCEPT !.localizations =
               IF call.op = "removeLocalization"
               THEN Filter(@, {k \in DOMAIN @ : ~SameKey(@[k], call.locs[1])})
               ELSE UpsertAll(@, call.locs)] : r \in S}

\* the product a mutation returns, as it sits in the working set: it has no id and
\* no isNew or isDeleted flag, which read as absent and false
Returned(p) ==
    [id |-> NoId, sku |-> p.sku, category |-> p.category, imageUrl |-> p.imageUrl,
     productStatus |-> p.productStatus, quantityInStock |-> p.quantityInStock,
     localizations |-> p.localizations, isNew |-> FALSE, isDeleted |-> FALSE]

\* setProducts(currentProducts => currentProducts.map(...)) of
\* handleLocalizationsUpdate(updatedProduct)
handleLocalizationsUpdate(updatedProduct) ==
    [k \in DOMAIN products |->
        IF products[k].isNew /\ products[k].id = updatedProduct.id THEN updatedProduct
        ELSE IF ~products[k].isNew /\ products[k].sku = updatedProduct.sku
        THEN updatedProduct
        ELSE products[k]]

\* the state of the editor once the effect on [product, isOpen] has run
EffectRun(m, p) ==
    [m EXCEPT !.localizations = LocRows(p),
              !.originalLocalizations = LocRows(p),
              !.error = IF modalRev = "m2" THEN "" ELSE @]

\* what no step of the editor changes
ModalFrame ==
    UNCHANGED <<variant, modalRev, translationVars, gatewayVars, shownQuery, viewVars, originalProducts, productNextToken, selectedRows,
                isProductSearchActive, productSearch, categories, originalCategories,
                displayedCategories, loading, isSaving, error, srvCategories, inflight,
                fetches, save, hist>>

\* the Localizations button of row i
handleOpenLocalizationModal(i) ==
    /\ ops.events > 0
    /\ ~loading /\ ~isSaving /\ ~isLocalizationModalOpen
    /\ editingProduct' = <<products[i]>>
    /\ isLocalizationModalOpen' = TRUE
    /\ locModal' = EffectRun(locModal, products[i])
    /\ ops' = [ops EXCEPT !.events = @ - 1]
    /\ UNCHANGED <<products, srvProducts, now>>
    /\ ModalFrame

\* the user events of the editor; its Spinner covers it while it saves
ModalUser ==
    /\ ops.events > 0
    /\ isLocalizationModalOpen /\ ~locModal.isSaving
    /\ ops' = [ops EXCEPT !.events = @ - 1]
    /\ ModalFrame

\* the Cancel and close buttons
handleCloseLocalizationModal ==
    /\ ModalUser
    /\ isLocalizationModalOpen' = FALSE
    /\ locModal' = EffectRun(locModal, editingProduct[1])
    /\ UNCHANGED <<products, srvProducts, now, editingProduct>>

LocFields == {"lang", "country", "productName"}

LocInputs(field) ==
    CASE field = "lang" -> LangInputs
      [] field = "country" -> CountryInputs
      [] OTHER -> NameInputs

SetLocField(row, field, value) ==
    CASE field = "lang" -> [row EXCEPT !.lang = value]
      [] field = "country" -> [row EXCEPT !.country = value]
      [] OTHER -> [row EXCEPT !.productName = value]

\* handleInputChange(index, field, value) of the editor; m2 disables the language
\* and country boxes of a row without _tempId
Modal_handleInputChange(index, field, value) ==
    LET row == locModal.localizations[index]
    IN /\ ModalUser
       /\ (modalRev = "m2" /\ field \in {"lang", "country"}) => row.tempId # NoTempId
       /\ SetLocField(row, field, value) # row
       /\ locModal' = [locModal EXCEPT
              !.localizations[index] = SetLocField(row, field, value)]
       /\ UNCHANGED <<products, srvProducts, now, editingProduct,
                      isLocalizationModalOpen>>

\* the Add New Localization button
handleAddLocalization(tick) ==
    /\ ModalUser
    /\ Len(locModal.localizations) < MaxLocs
    /\ now' = IF tick THEN now + 1 ELSE now
    /\ locModal' = [locModal EXCEPT
           !.localizations = Append(@, createNewLocalization(now'))]
    /\ UNCHANGED <<products, srvProducts, editingProduct, isLocalizationModalOpen>>

\* handleDeleteLocalization(indexToDelete)
handleDeleteLocalization(indexToDelete) ==
    /\ ModalUser
    /\ locModal' = IF Len(locModal.localizations) <= 1 THEN locModal
                   ELSE [locModal EXCEPT !.localizations = Remove(@, indexToDelete)]
    /\ UNCHANGED <<products, srvProducts, now, editingProduct, isLocalizationModalOpen>>

\* the originals that the edited list has no longer, by (lang, country)
LocalizationsToRemove(m) ==
    Filter(m.originalLocalizations,
           {k \in DOMAIN m.originalLocalizations :
               ~\E j \in DOMAIN m.localizations :
                   SameKey(m.localizations[j], m.originalLocalizations[k])})

RemoveCalls(sku, rows) ==
    [k \in DOMAIN rows |-> LocCall("removeLocalization", sku, <<Cleaned(rows[k])>>)]

RECURSIVE WriteCalls(_, _, _)
\* the addLocalization and updateLocalization calls of m1, row by row from index k
WriteCalls(m, sku, k) ==
    IF k > Len(m.localizations) THEN <<>>
    ELSE LET loc == m.localizations[k]
             original == {j \in DOMAIN m.originalLocalizations :
                              SameKey(m.originalLocalizations[j], loc)}
         IN (IF loc.tempId # NoTempId
             THEN <<LocCall("addLocalization", sku, <<Cleaned(loc)>>)>>
             ELSE IF original # {} /\ \E j \in original :
                         j = (CHOOSE i \in original : \A h \in original : i <= h)
                         /\ m.originalLocalizations[j] # loc
             THEN <<LocCall("updateLocalization", sku, <<Cleaned(loc)>>)>>
             ELSE <<>>)
            \o WriteCalls(m, sku, k + 1)

\* onSave(updatedProduct): handleLocalizationsUpdate, which closes the editor
OnSave(updatedProduct, m) ==
    /\ products' = handleLocalizationsUpdate(updatedProduct)
    /\ isLocalizationModalOpen' = FALSE
    /\ locModal' = EffectRun(m, editingProduct[1])

\* the Save Changes button of the editor, up to its first await
Modal_handleSaveChanges ==
    LET product == editingProduct[1]
        locs == locModal.localizations
        invalid == \E k \in DOMAIN locs :
                       locs[k].lang = "" \/ locs[k].country = "" \/ locs[k].productName = ""
        mutations == RemoveCalls(product.sku, LocalizationsToRemove(locModal))
                         \o WriteCalls(locModal, product.sku, 1)
    IN /\ ModalUser
       /\ IF invalid
          THEN /\ locModal' = [locModal EXCEPT !.error = "validation"]
               /\ UNCHANGED <<products, isLocalizationModalOpen>>
          ELSE IF modalRev = "m2" /\ product.isNew
          THEN OnSave([product EXCEPT !.localizations = CleanedAll(locs)],
                      [locModal EXCEPT !.error = ""])
          ELSE IF modalRev = "m2"
          THEN /\ locModal' = [locModal EXCEPT
                      !.error = "", !.isSaving = TRUE, !.pc = "updating",
                      !.final = <<>>,
                      !.calls = <<LocCall("updateLocalization", product.sku,
                                          CleanedAll(locs))>>]
               /\ UNCHANGED <<products, isLocalizationModalOpen>>
          ELSE IF mutations = <<>>
          THEN \* onClose() and return, with isSaving left set
               /\ isLocalizationModalOpen' = FALSE
               /\ locModal' = EffectRun([locModal EXCEPT !.error = "",
                                                         !.isSaving = TRUE],
                                        product)
               /\ UNCHANGED products
          ELSE /\ locModal' = [locModal EXCEPT
                      !.error = "", !.isSaving = TRUE, !.pc = "mutating",
                      !.final = <<>>, !.calls = mutations]
               /\ UNCHANGED <<products, isLocalizationModalOpen>>
       /\ UNCHANGED <<srvProducts, now, editingProduct>>

\* the remote catalog answers call i of the editor: it applies it and returns the
\* product (ok), or fails; a call for a sku it does not hold fails
ModalRespond(i, ok) ==
    LET call == locModal.calls[i]
        held == \E r \in srvProducts : r.sku = call.sku
        after == ApplyLocalization(srvProducts, call)
    IN /\ call.status = "pending"
       /\ IF ok THEN held ELSE (~held \/ ops.failures > 0)
       /\ ops' = IF ~ok /\ held THEN [ops EXCEPT !.failures = @ - 1] ELSE ops
       /\ srvProducts' = IF ok THEN after ELSE srvProducts
       /\ locModal' = [locModal EXCEPT !.calls[i] =
              IF ok
              THEN [call EXCEPT !.status = "fulfilled",
                                !.result = <<CHOOSE r \in after : r.sku = call.sku>>]
              ELSE [call EXCEPT !.status = "failed"]]
       /\ UNCHANGED <<products, now, editingProduct, isLocalizationModalOpen>>
       /\ ModalFrame

\* m2: the updateLocalization call has been answered
UpdateAnswered ==
    LET call == locModal.calls[1]
        toRemove == LocalizationsToRemove(locModal)
        sku == editingProduct[1].sku
    IN /\ locModal.pc = "updating"
       /\ call.status # "pending"
       /\ IF call.status = "failed"
          THEN /\ locModal' = [locModal EXCEPT !.error = "save", !.isSaving = FALSE,
                                               !.pc = "idle", !.calls = <<>>]
               /\ UNCHANGED <<products, isLocalizationModalOpen>>
          ELSE IF toRemove = <<>>
          THEN OnSave(Returned(call.result[1]),
                      [locModal EXCEPT !.isSaving = FALSE, !.pc = "idle",
                                       !.calls = <<>>])
          ELSE /\ locModal' = [locModal EXCEPT !.pc = "removing",
                                               !.final = call.result,
                                               !.calls = RemoveCalls(sku, toRemove)]
               /\ UNCHANGED <<products, isLocalizationModalOpen>>
       /\ UNCHANGED <<srvProducts, now, editingProduct, ops>>
       /\ ModalFrame

\* Promise.allSettled of the editor has every call answered: the removeLocalization
\* calls of m2, or the mutations of m1
AllSettled ==
    LET calls == locModal.calls
        last == calls[Len(calls)]
    IN /\ locModal.pc \in {"removing", "mutating"}
       /\ \A k \in DOMAIN calls : calls[k].status # "pending"
       /\ IF \E k \in DOMAIN calls : calls[k].status = "failed"
          THEN /\ locModal' = [locModal EXCEPT !.error = "save", !.isSaving = FALSE,
                                               !.pc = "idle", !.calls = <<>>]
               /\ UNCHANGED <<products, isLocalizationModalOpen>>
          ELSE OnSave(Returned(last.result[1]),
                      [locModal EXCEPT !.isSaving = FALSE, !.pc = "idle",
                                       !.calls = <<>>])
       /\ UNCHANGED <<srvProducts, now, editingProduct, ops>>
       /\ ModalFrame

\* ------------------------------------------- the category translation editor
\* The three revisions of CategoryTranslationsModal: t1 = src/unnamed/part_003
\* 75-179, t2 = src/unnamed/part_004, t3 = src/src/components/
\* CategoryTranslationsModal.jsx.  A text the user types is the sequence of its
\* characters.
TranslationRevisions == {"t1", "t2", "t3"}

\* the revisions of the two editors that the runs of the Dashboard mount
CurrentRevisions == [localizations |-> {"m2"}, translations |-> {"t3"}]

\* what the user types into the language code box and into the text boxes
LangTyped == {<<"e", "s">>, <<"E", "S">>, <<"e", "n", "g">>, <<" ", "e">>}
TextTyped == {<<"t">>, <<" ">>}

\* String.prototype.toLowerCase on the characters of the model
lowerChar(c) == CASE c = "E" -> "e" [] c = "S" -> "s" [] OTHER -> c
lower(s) == [k \in DOMAIN s |-> lowerChar(s[k])]

\* String.prototype.slice(0, 2)
slice2(s) == SubSeq(s, 1, IF Len(s) < 2 THEN Len(s) ELSE 2)

RECURSIVE trimStart(_)
trimStart(s) == IF s # <<>> /\ Head(s) = " " THEN trimStart(Tail(s)) ELSE s

RECURSIVE trimEnd(_)
trimEnd(s) ==
    IF s # <<>> /\ s[Len(s)] = " " THEN trimEnd(SubSeq(s, 1, Len(s) - 1)) ELSE s

\* String.prototype.trim on a typed text
trimText(s) == trimEnd(trimStart(s))

ClosedTranslations ==
    [translations |-> <<>>, originalTranslations |-> <<>>, isSaving |-> FALSE,
     newLang |-> <<>>, newText |-> <<>>, call |-> <<>>, adds |-> 0]

\* the state of the editor once its effect has run for category c (0 or 1)
TranslationsEffect(m, c) ==
    [m EXCEPT !.translations = IF c = <<>> THEN <<>> ELSE c[1].translations,
              !.originalTranslations = IF c = <<>> THEN <<>> ELSE c[1].translations,
              !.newLang = <<>>, !.newText = <<>>, !.isSaving = FALSE]

\* what no step of the translation editor changes
TranslationsFrame ==
    UNCHANGED <<variant, trRev, modalVars, gatewayVars, shownQuery, viewVars, products, originalProducts, productNextToken,
                selectedRows, isProductSearchActive, productSearch, loading, isSaving,
                error, srvProducts, inflight, fetches, save, now, hist>>

\* the categories the table shows, with their Translations button
ShownCategoryRows == IF variant = "v1" THEN categories ELSE displayedCategories

\* the Translations button of row i of the category table
handleOpenTranslationsModal(i) ==
    /\ ops.events > 0
    /\ ~loading /\ ~isSaving /\ ~isLocalizationModalOpen /\ ~isTranslationsModalOpen
    /\ variant = "v1" => ~ShownCategoryRows[i].isDeleted
    /\ editingCategory' = <<ShownCategoryRows[i]>>
    /\ isTranslationsModalOpen' = TRUE
    /\ trModal' = TranslationsEffect(trModal, <<ShownCategoryRows[i]>>)
    /\ ops' = [ops EXCEPT !.events = @ - 1]
    /\ UNCHANGED <<categories, originalCategories, displayedCategories, srvCategories>>
    /\ TranslationsFrame

\* the user events of the open editor; t2 and t3 disable its fields while it saves
TranslationsUser ==
    /\ ops.events > 0
    /\ isTranslationsModalOpen /\ ~trModal.isSaving
    /\ ops' = [ops EXCEPT !.events = @ - 1]
    /\ TranslationsFrame

\* the Cancel button: onClose = handleCloseTranslationsModal
handleCloseTranslationsModal ==
    /\ TranslationsUser
    /\ isTranslationsModalOpen' = FALSE
    /\ editingCategory' = <<>>
    /\ trModal' = TranslationsEffect(trModal, <<>>)
    /\ UNCHANGED <<categories, originalCategories, displayedCategories, srvCategories>>

\* the language code box holds `value` after a change
handleLangChange(value) ==
    LET stored == IF trRev = "t1" THEN value ELSE slice2(lower(value))
    IN /\ TranslationsUser
       /\ stored # trModal.newLang
       /\ trModal' = [trModal EXCEPT !.newLang = stored]
       /\ UNCHANGED <<categories, originalCategories, displayedCategories,
                      srvCategories, editingCategory, isTranslationsModalOpen>>

\* the new-text box holds `value` after a change
setNewText(value) ==
    /\ TranslationsUser
    /\ value # trModal.newText
    /\ trModal' = [trModal EXCEPT !.newText = value]
    /\ UNCHANGED <<categories, originalCategories, displayedCategories,
                   srvCategories, editingCategory, isTranslationsModalOpen>>

\* the Add button of the editor
handleAddTranslation ==
    LET lang == trimText(trModal.newLang)
        text == trimText(trModal.newText)
        present == \E k \in DOMAIN trModal.translations :
                       IF trRev = "t1"
                       THEN lower(trModal.translations[k].lang) = lower(lang)
                       ELSE trModal.translations[k].lang = lang
        rejected == \/ lang = <<>> \/ text = <<>>
                    \/ (trRev # "t1" /\ Len(lang) # 2)
                    \/ present
    IN /\ TranslationsUser
       /\ trModal' = IF rejected THEN [trModal EXCEPT !.adds = @ + 1]
                     ELSE [trModal EXCEPT
                              !.translations = Append(@, [lang |-> lang, text |-> text]),
                              !.newLang = <<>>, !.newText = <<>>, !.adds = @ + 1]
       /\ UNCHANGED <<categories, originalCategories, displayedCategories,
                      srvCategories, editingCategory, isTranslationsModalOpen>>

\* the Remove button of the translation with code langToRemove
handleRemoveTranslation(langToRemove) ==
    /\ TranslationsUser
    /\ trModal' = [trModal EXCEPT !.translations =
           Filter(@, {k \in DOMAIN @ : @[k].lang # langToRemove})]
    /\ UNCHANGED <<categories, originalCategories, displayedCategories,
                   srvCategories, editingCategory, isTranslationsModalOpen>>

\* the text box of the translation with code lang holds newTextValue after a change
handleUpdateTranslationText(lang, newTextValue) ==
    LET updated == [k \in DOMAIN trModal.translations |->
                       IF trModal.translations[k].lang = lang
                       THEN [trModal.translations[k] EXCEPT !.text = newTextValue]
                       ELSE trModal.translations[k]]
    IN /\ TranslationsUser
       /\ updated # trModal.translations
       /\ trModal' = [trModal EXCEPT !.translations = updated]
       /\ UNCHANGED <<categories, originalCategories, displayedCategories,
                      srvCategories, editingCategory, isTranslationsModalOpen>>

ReplaceCategory(list, updatedCategory) ==
    [k \in DOMAIN list |->
        IF list[k].category = updatedCategory.category THEN updatedCategory ELSE list[k]]

\* onSave(updatedCategory): handleSaveTranslations, which closes the editor
handleSaveTranslations(updatedCategory) ==
    /\ categories' = ReplaceCategory(categories, updatedCategory)
    /\ displayedCategories' =
           IF variant = "v1" THEN displayedCategories
           ELSE ReplaceCategory(displayedCategories, updatedCategory)
    /\ originalCategories' =
           IF variant = "v1" \/ ~updatedCategory.isNew
           THEN ReplaceCategory(originalCategories, updatedCategory)
           ELSE originalCategories
    /\ isTranslationsModalOpen' = FALSE
    /\ editingCategory' = <<>>
    /\ trModal' = [TranslationsEffect(trModal, <<>>) EXCEPT !.call = <<>>]

\* the Save Changes button of the editor, up to its await
Translations_handleSaveChanges ==
    LET category == editingCategory[1]
        isDirty == trModal.translations # trModal.originalTranslations
        updatedCategory == [category EXCEPT !.translations = trModal.translations]
    IN /\ TranslationsUser
       /\ trRev # "t1" => isDirty
       /\ IF trRev = "t1" \/ (trRev = "t3" /\ category.isNew)
          THEN handleSaveTranslations(updatedCategory)
          ELSE /\ trModal' = [trModal EXCEPT
                      !.isSaving = TRUE,
                      !.call = <<[category |-> category.category,
                                  translations |-> trModal.translations]>>]
               /\ UNCHANGED <<categories, originalCategories, displayedCategories,
                              editingCategory, isTranslationsModalOpen>>
       /\ UNCHANGED srvCategories

\* the remote catalog stores a translation of a category under its lang
UpsertTranslation(list, tr) ==
    IF \E k \in DOMAIN list : list[k].lang = tr.lang
    THEN [k \in DOMAIN list |-> IF list[k].lang = tr.lang THEN tr ELSE list[k]]
    ELSE Append(list, tr)

RECURSIVE UpsertTranslations(_, _)
UpsertTranslations(list, trs) ==
    IF trs = <<>> THEN list
    ELSE UpsertTranslations(UpsertTranslation(list, Head(trs)), Tail(trs))

\* upsertCategoryTranslation(input) answered: applied (ok) or failed; the call for
\* a category the catalog does not hold fails.  The handler goes on to onSave, or
\* to its alert.
TranslationRespond(ok) ==
    LET call == trModal.call[1]
        held == \E r \in srvCategories : r.category = call.category
    IN /\ trModal.call # <<>>
       /\ IF ok THEN held ELSE (~held \/ ops.failures > 0)
       /\ ops' = IF ~ok /\ held THEN [ops EXCEPT !.failures = @ - 1] ELSE ops
       /\ IF ok
          THEN /\ srvCategories' =
                      {IF r.category # call.category THEN r
                       ELSE [r EXCEPT !.translations =
                                UpsertTranslations(@, call.translations)] :
                           r \in srvCategories}
               /\ handleSaveTranslations(
                      [editingCategory[1] EXCEPT !.translations = call.translations])
          ELSE /\ trModal' = [trModal EXCEPT !.isSaving = FALSE, !.call = <<>>]
               /\ UNCHANGED <<categories, originalCategories, displayedCategories,
                              srvCategories, editingCategory, isTranslationsModalOpen>>
       /\ TranslationsFrame

\* ------------------------------------------------------------ the gateway
\* graphqlRequest calls made in one run
MaxCalls == 2

\* what getCurrentUserToken returns when there is no session (null)
NoToken == "null"

\* the JWT tokens a session can hold
Tokens == {"jwt1", "jwt2"}

\* the queries and mutations of apiService
Queries == {"getAllProducts", "createProduct"}

\* what the browser can hold when the page is opened
AuthStates ==
    [user : BOOLEAN, idToken : Tokens \cup {NoToken},
     refreshToken : {"refresh1", NoToken}]

\* authService after login
LoggedIn == [user |-> TRUE, idToken |-> "jwt1", refreshToken |-> "refresh1"]

\* the ways getValidSession settles when the pool's storage is `a`
getValidSession(a) ==
    IF ~a.user
    THEN {[valid |-> FALSE, idToken |-> NoToken, message |-> "No user found. Please log in."]}
    ELSE {[valid |-> FALSE, idToken |-> NoToken, message |-> "getSession failed"],
          [valid |-> FALSE, idToken |-> NoToken,
           message |-> "Session is not valid. Please log in again."]}
         \cup {[valid |-> TRUE, idToken |-> t, message |-> ""] : t \in Tokens}

\* a logout that signs the user out and leaves localStorage as it is
signOutOnly(a) == [a EXCEPT !.user = FALSE]

\* a logout that leaves the refresh token in localStorage
removeIdTokenOnly(a) == [user |-> FALSE, idToken |-> NoToken, refreshToken |-> a.refreshToken]

\* authService.logout
logout(a) ==
    [user |-> IF a.user THEN FALSE ELSE a.user,
     idToken |-> NoToken, refreshToken |-> NoToken]

\* authService.getCurrentUserToken when getValidSession settled as `session`: the
\* token returned and the state it leaves
getCurrentUserToken(a, session) ==
    IF session.valid
    THEN [token |-> session.idToken, auth |-> [a EXCEPT !.idToken = session.idToken]]
    ELSE [token |-> NoToken, auth |-> logout(a)]

\* a gateway that takes whatever the provider returned for a token
TokenAssumed(token) == FALSE

\* `!token`
NoTokenGiven(token) == token = NoToken

\* an entry of the `errors` list of a GraphQL response
ErrorEntry(errorType, message) == [errorType |-> errorType, message |-> message]

\* the `errors` lists of the model; <<>> stands for a response without `errors`
ErrorLists ==
    {<<>>,
     <<ErrorEntry("Validation", "bad input")>>,
     <<ErrorEntry("Validation", "")>>,
     <<ErrorEntry("Validation", "bad input"), ErrorEntry("Internal", "server fault")>>,
     <<ErrorEntry("Unauthorized", "not authorized")>>,
     <<ErrorEntry("Validation", "bad input"), ErrorEntry("Unauthorized", "not authorized")>>}

\* what the endpoint can answer: a status, and a body with or without errors
Responses == [status : {200, 401, 403, 500}, errors : ErrorLists, data : {"data1", "data2"}]

\* an endpoint whose every answer counts as a success
AlwaysOk(response) == TRUE

\* response.ok
ResponseOk(response) == response.status \in 200..299

\* a gateway that takes every error for an authorization error
AnyError(result) == TRUE

\* result.errors.find(e => e.errorType === 'Unauthorized')
authError(result) == \E k \in DOMAIN result.errors : result.errors[k].errorType = "Unauthorized"

\* a retry that may itself retry
AlwaysRetry(isRetry) == TRUE

\* `!isRetry`
MayRetry(isRetry) == ~isRetry

\* result.errors[0].message || "GraphQL error occurred"
ErrorMessage(result) ==
    IF result.errors[1].message = "" THEN "GraphQL error occurred"
    ELSE result.errors[1].message

\* `API request failed with status ${response.status}`
StatusMessage(response) == <<"API request failed with status", response.status>>

\* a call that returns nothing
Dropped(result) == "undefined"

\* result.data
Unwrap(result) == result.data

\* no graphqlRequest call has been made
IdleGateway ==
    [pc |-> "idle", query |-> "", isRetry |-> FALSE, requests |-> <<>>,
     responses |-> <<>>, attempts |-> <<>>, refreshes |-> 0, href |-> "/",
     navigated |-> FALSE, outcome |-> "none", value |-> "", calls |-> 0]

GatewayFrame ==
    UNCHANGED <<variant, uiVars, envVars, modalVars, translationVars, shownQuery, viewVars, ops,
                hist>>

\* a component calls an apiService function, which calls graphqlRequest(query, variables)
graphqlRequest(query) ==
    /\ gateway.pc \in {"idle", "done"}
    /\ gateway.href = "/"
    /\ ~gateway.navigated
    /\ gateway.calls < MaxCalls
    /\ gateway' = [IdleGateway EXCEPT !.pc = "token", !.query = query,
                                      !.calls = gateway.calls + 1]
    /\ UNCHANGED auth
    /\ GatewayFrame

\* the start of an attempt: the token is asked for and, if there is one, the request
\* is sent
Attempt(session) ==
    /\ gateway.pc = "token"
    /\ LET got == getCurrentUserToken(auth, session)
           n == Len(gateway.attempts) + 1
       IN /\ auth' = got.auth
          /\ IF NoTokenGiven(got.token)
             THEN gateway' = [gateway EXCEPT !.pc = "done",
                                             !.attempts = Append(@, got.token),
                                             !.href = "/login",
                                             !.outcome = "threw",
                                             !.value = "User is not authenticated."]
             ELSE gateway' = [gateway EXCEPT
                                  !.pc = "fetch",
                                  !.attempts = Append(@, got.token),
                                  !.requests = Append(@, [Authorization |-> got.token,
                                                          query |-> gateway.query,
                                                          attempt |-> n])]
    /\ GatewayFrame

\* the endpoint answers the request
Respond(response) ==
    /\ gateway.pc = "fetch"
    /\ LET g == [gateway EXCEPT !.responses = Append(@, response)]
       IN gateway' =
              IF response.status = 401 /\ MayRetry(gateway.isRetry)
              THEN [g EXCEPT !.pc = "refresh"]
              ELSE IF ~ResponseOk(response)
              THEN [g EXCEPT !.pc = "done", !.outcome = "threw",
                             !.value = StatusMessage(response)]
              ELSE IF response.errors # <<>>
              THEN IF authError(response) /\ MayRetry(gateway.isRetry)
                   THEN [g EXCEPT !.pc = "refresh"]
                   ELSE [g EXCEPT !.pc = "done", !.outcome = "threw",
                                  !.value = ErrorMessage(response)]
              ELSE [g EXCEPT !.pc = "done", !.outcome = "returned",
                             !.value = Unwrap(response)]
    /\ UNCHANGED auth
    /\ GatewayFrame

\* fetch rejects: the request got no response
FetchRejected ==
    /\ gateway.pc = "fetch"
    /\ gateway' = [gateway EXCEPT !.pc = "done", !.outcome = "threw",
                                  !.value = "Failed to fetch"]
    /\ UNCHANGED auth
    /\ GatewayFrame

\* the Logout button, or the catch of a listing call that failed with a message
\* holding "401" or "authenticated": authService.logout() and navigate('/login')
handleLogout ==
    /\ gateway.pc \in {"idle", "done"}
    /\ ~gateway.navigated
    /\ auth' = logout(auth)
    /\ gateway' = [gateway EXCEPT !.navigated = TRUE]
    /\ GatewayFrame

\* after an unauthorized answer: getCurrentUserToken is awaited, its result is
\* dropped, and graphqlRequest(query, variables, true) is called
Refresh(session) ==
    /\ gateway.pc = "refresh"
    /\ auth' = getCurrentUserToken(auth, session).auth
    /\ gateway' = [gateway EXCEPT !.pc = "token", !.isRetry = TRUE,
                                  !.refreshes = @ + 1]
    /\ GatewayFrame

\* ------------------------------------------------------- the specification
\* the catalog when the page is opened
InitialProducts == {SrvProduct("A1", "Tools", 5), SrvProduct("B2", "Toys", 5)}
InitialCategories == {SrvCategory("Tools"), SrvCategory("Toys")}

\* the component has been mounted and its first listing call is under way; `budget`
\* is what the run may still do
Mounted(budget, revisions) ==
    /\ variant \in Variants
    /\ modalRev \in revisions.localizations
    /\ trRev \in revisions.translations
    /\ editingCategory = <<>>
    /\ isTranslationsModalOpen = FALSE
    /\ trModal = ClosedTranslations
    /\ editingProduct = <<>>
    /\ isLocalizationModalOpen = FALSE
    /\ locModal = ClosedModal
    /\ products = <<>> /\ originalProducts = <<>>
    /\ productNextToken = 0
    /\ selectedRows = {}
    /\ isProductSearchActive = FALSE
    /\ productSearch = ""
    /\ categories = <<>> /\ originalCategories = <<>> /\ displayedCategories = <<>>
    /\ loading = TRUE
    /\ isSaving = FALSE
    /\ error = NoError
    /\ inflight = <<>>
    /\ fetches = <<FetchCall(0, FALSE, FALSE, FALSE, 0, <<>>)>>
    /\ save = IdleSave
    /\ now = 1
    /\ gateway = IdleGateway
    /\ shownQuery = NoQuery
    /\ activeTab = "inventory"
    /\ eventLogs = <<>>
    /\ eventNextToken = 0
    /\ logSearchOrderId = ""
    /\ logFetches = <<>>
    /\ shownOrder = ""
    /\ categorySearch = ""
    /\ categoryLookups = <<>>
    /\ ops = budget
    /\ hist = NoHist

\* the user has signed in before the page is opened
SignedIn == auth = LoggedIn

Init ==
    /\ Mounted([events |-> MaxOps, saves |-> MaxSaves, failures |-> MaxFailures],
               CurrentRevisions)
    /\ SignedIn
    /\ srvProducts = InitialProducts
    /\ srvCategories = InitialCategories

Next ==
    \/ \E i \in DOMAIN fetches : \E ok \in BOOLEAN : FetchRespond(i, ok)
    \/ LoadMore
    \/ \E text \in SearchInputs : handleProductSearch(text)
    \/ \E tick \in BOOLEAN : handleAddRow(tick)
    \/ \E i \in DOMAIN products : handleRemoveNewRow(i)
    \/ \E i \in DOMAIN products : handleSelectionChange(i)
    \/ handleDeleteRows
    \/ \E i \in DOMAIN products : \E field \in Fields :
           \E value \in FieldInputs(i, field) : handleInputChange(i, field, value)
    \/ \E name \in CategoryInputs : handleAddCategory(name)
    \/ \E name \in ShownCategories : handleDeleteCategory(name)
    \/ \E confirmed \in BOOLEAN : handleSaveChanges(confirmed)
    \/ \E i \in DOMAIN inflight : \E ok \in BOOLEAN : ServerRespond(i, ok)
    \/ SaveFulfilled
    \/ SaveRejected

Spec == Init /\ [][Next]_vars

\* runs with two clicks on Save All Changes, fewer other user events and one failure
TwoSavesOps == 3
TwoSavesFailures == 1

InitTwoSaves ==
    /\ Mounted([events |-> TwoSavesOps, saves |-> MaxSaves + 1,
                failures |-> TwoSavesFailures], CurrentRevisions)
    /\ SignedIn
    /\ srvProducts = InitialProducts
    /\ srvCategories = InitialCategories

SpecTwoSaves == InitTwoSaves /\ [][Next]_vars

\* runs of the localization editor: the listing, new rows and the editor
ModalOps == 7
ModalFailures == 1

InitModal ==
    /\ Mounted([events |-> ModalOps, saves |-> 0, failures |-> ModalFailures],
               [CurrentRevisions EXCEPT !.localizations = ModalRevisions])
    /\ SignedIn
    /\ srvProducts = InitialProducts
    /\ srvCategories = InitialCategories

NextModal ==
    \/ \E i \in DOMAIN fetches : \E ok \in BOOLEAN : FetchRespond(i, ok)
    \/ \E tick \in BOOLEAN : handleAddRow(tick)
    \/ \E i \in DOMAIN products : handleOpenLocalizationModal(i)
    \/ handleCloseLocalizationModal
    \/ \E index \in DOMAIN locModal.localizations : \E field \in LocFields :
           \E value \in LocInputs(field) : Modal_handleInputChange(index, field, value)
    \/ \E tick \in BOOLEAN : handleAddLocalization(tick)
    \/ \E index \in DOMAIN locModal.localizations : handleDeleteLocalization(index)
    \/ Modal_handleSaveChanges
    \/ \E i \in DOMAIN locModal.calls : \E ok \in BOOLEAN : ModalRespond(i, ok)
    \/ UpdateAnswered
    \/ AllSettled

SpecModal == InitModal /\ [][NextModal]_vars

\* runs of the category translation editor: the listing, new categories and the
\* editor
TranslationOps == 6
TranslationFailures == 1

\* a catalog in which the category Tools has a translation
TranslatedCategories ==
    {[category |-> "Tools", translations |-> <<[lang |-> <<"f", "r">>, text |-> <<"t">>]>>],
     SrvCategory("Toys")}

InitTranslations ==
    /\ Mounted([events |-> TranslationOps, saves |-> 0, failures |-> TranslationFailures],
               [CurrentRevisions EXCEPT !.translations = TranslationRevisions])
    /\ SignedIn
    /\ srvProducts = InitialProducts
    /\ srvCategories = TranslatedCategories

NextTranslations ==
    \/ \E i \in DOMAIN fetches : \E ok \in BOOLEAN : FetchRespond(i, ok)
    \/ \E name \in CategoryInputs : handleAddCategory(name)
    \/ \E i \in DOMAIN ShownCategoryRows : handleOpenTranslationsModal(i)
    \/ handleCloseTranslationsModal
    \/ \E value \in LangTyped : handleLangChange(value)
    \/ \E value \in TextTyped : setNewText(value)
    \/ handleAddTranslation
    \/ \E k \in DOMAIN trModal.translations :
           handleRemoveTranslation(trModal.translations[k].lang)
    \/ \E k \in DOMAIN trModal.translations : \E value \in TextTyped :
           handleUpdateTranslationText(trModal.translations[k].lang, value)
    \/ Translations_handleSaveChanges
    \/ \E ok \in BOOLEAN : TranslationRespond(ok)

SpecTranslations == InitTranslations /\ [][NextTranslations]_vars

\* runs of the category table: the listing, new and deleted categories and the save
CategoryOps == 5
CategoryFailures == 1

InitCategories ==
    /\ Mounted([events |-> CategoryOps, saves |-> MaxSaves,
                failures |-> CategoryFailures], CurrentRevisions)
    /\ SignedIn
    /\ srvProducts = InitialProducts
    /\ srvCategories = InitialCategories

NextCategories ==
    \/ \E i \in DOMAIN fetches : \E ok \in BOOLEAN : FetchRespond(i, ok)
    \/ \E name \in CategoryInputs : handleAddCategory(name)
    \/ \E name \in ShownCategories : handleDeleteCategory(name)
    \/ \E confirmed \in BOOLEAN : handleSaveChanges(confirmed)
    \/ \E i \in DOMAIN inflight : \E ok \in BOOLEAN : ServerRespond(i, ok)
    \/ SaveFulfilled
    \/ SaveRejected

SpecCategories == InitCategories /\ [][NextCategories]_vars

\* runs of the product search: a catalog with two pages of Toys, the search box, the
\* Search, Clear and Load More buttons
SearchOps == 6
SearchFailures == 1
SearchCatalog ==
    {SrvProduct("A1", "Toys", 5), SrvProduct("B2", "Tools", 5), SrvProduct("N1", "Toys", 5)}

InitSearch ==
    /\ Mounted([events |-> SearchOps, saves |-> 0, failures |-> SearchFailures],
               CurrentRevisions)
    /\ SignedIn
    /\ srvProducts = SearchCatalog
    /\ srvCategories = InitialCategories

NextSearch ==
    \/ \E i \in DOMAIN fetches : \E ok \in BOOLEAN : FetchRespond(i, ok)
    \/ LoadMore
    \/ \E value \in SearchTexts : setProductSearch(value)
    \/ \E text \in SearchTexts : handleProductSearch(text)
    \/ clearProductSearch

SpecSearch == InitSearch /\ [][NextSearch]_vars

\* runs of the gateway alone: whatever the browser holds when the page is opened,
\* and no event of the page
InitGateway ==
    /\ Mounted([events |-> 0, saves |-> 0, failures |-> 0], CurrentRevisions)
    /\ auth \in AuthStates
    /\ srvProducts = InitialProducts
    /\ srvCategories = InitialCategories

NextGateway ==
    \/ \E query \in Queries : graphqlRequest(query)
    \/ \E session \in getValidSession(auth) : Attempt(session)
    \/ \E response \in Responses : Respond(response)
    \/ FetchRejected
    \/ \E session \in getValidSession(auth) : Refresh(session)
    \/ handleLogout

SpecGateway == InitGateway /\ [][NextGateway]_vars

\* runs of the save whose remote calls are all answered in the end and whose promise
\* continuations are all run by the event loop: few user events, and enough failures
\* for a refused mutation and a failed refetch of the same save
LiveOps == 2
LiveFailures == 2

InitLive ==
    /\ Mounted([events |-> LiveOps, saves |-> MaxSaves, failures |-> LiveFailures],
               CurrentRevisions)
    /\ SignedIn
    /\ srvProducts = InitialProducts
    /\ srvCategories = InitialCategories

\* every remote call is answered, successfully or not
CallsAnswered ==
    /\ WF_vars(\E i \in DOMAIN inflight : \E ok \in BOOLEAN : ServerRespond(i, ok))
    /\ WF_vars(\E i \in DOMAIN fetches : \E ok \in BOOLEAN : FetchRespond(i, ok))

\* the continuation of `await Promise.all(mutations)` is run once the promise settles
ContinuationsRun == WF_vars(SaveFulfilled) /\ WF_vars(SaveRejected)

SpecLive == InitLive /\ [][Next]_vars /\ CallsAnswered /\ ContinuationsRun

\* runs of the two tabs: the listing and its Load More button, the tab buttons, the
\* order filter and the Load More Events button
LogOps == 5
LogFailures == 1

InitLogs ==
    /\ Mounted([events |-> LogOps, saves |-> 0, failures |-> LogFailures],
               CurrentRevisions)
    /\ SignedIn
    /\ srvProducts = InitialProducts
    /\ srvCategories = InitialCategories

NextLogs ==
    \/ \E i \in DOMAIN fetches : \E ok \in BOOLEAN : FetchRespond(i, ok)
    \/ LoadMore
    \/ \E tab \in {"inventory", "logs"} : setActiveTab(tab)
    \/ \E value \in OrderInputs : setLogSearchOrderId(value)
    \/ handleLogSearch
    \/ clearLogSearch
    \/ LoadMoreEvents
    \/ \E i \in DOMAIN logFetches : \E ok \in BOOLEAN : LogsRespond(i, ok)

SpecLogs == InitLogs /\ [][NextLogs]_vars

\* runs of the category table and its search: the listing, new and deleted
\* categories, the search box and its Search and Clear buttons
CategorySearchOps == 4
CategorySearchFailures == 1

InitCategorySearch ==
    /\ Mounted([events |-> CategorySearchOps, saves |-> 0,
                failures |-> CategorySearchFailures], CurrentRevisions)
    /\ SignedIn
    /\ srvProducts = InitialProducts
    /\ srvCategories = InitialCategories

NextCategorySearch ==
    \/ \E i \in DOMAIN fetches : \E ok \in BOOLEAN : FetchRespond(i, ok)
    \/ \E name \in CategoryInputs : handleAddCategory(name)
    \/ \E name \in ShownCategories : handleDeleteCategory(name)
    \/ \E value \in CategorySearchInputs : setCategorySearch(value)
    \/ handleCategorySearch
    \/ clearCategorySearch
    \/ \E i \in DOMAIN categoryLookups : \E ok \in BOOLEAN : CategoryLookupRespond(i, ok)

SpecCategorySearch == InitCategorySearch /\ [][NextCategorySearch]_vars

\* runs of the localization editor on a product whose fields are being edited: the
\* listing, the boxes of the product table and the editor
EditOps == 4
EditFailures == 1

InitEdits ==
    /\ Mounted([events |-> EditOps, saves |-> 0, failures |-> EditFailures],
               [CurrentRevisions EXCEPT !.localizations = ModalRevisions])
    /\ SignedIn
    /\ srvProducts = InitialProducts
    /\ srvCategories = InitialCategories

NextEdits ==
    \/ \E i \in DOMAIN fetches : \E ok \in BOOLEAN : FetchRespond(i, ok)
    \/ \E i \in DOMAIN products : \E field \in Fields :
           \E value \in FieldInputs(i, field) : handleInputChange(i, field, value)
    \/ \E i \in DOMAIN products : handleOpenLocalizationModal(i)
    \/ handleCloseLocalizationModal
    \/ \E index \in DOMAIN locModal.localizations : \E field \in LocFields :
           \E value \in LocInputs(field) : Modal_handleInputChange(index, field, value)
    \/ Modal_handleSaveChanges
    \/ \E i \in DOMAIN locModal.calls : \E ok \in BOOLEAN : ModalRespond(i, ok)
    \/ UpdateAnswered
    \/ AllSettled

SpecEdits == InitEdits /\ [][NextEdits]_vars

\* ------------------------------------------------------------ properties
\* a step of handleSaveChanges: the Save All Changes button has been clicked
SaveInvoked == hist'.clicks = hist.clicks + 1

\* a step that sends a mutation call or a listing request
RemoteCallIssued ==
    \/ Len(inflight') > Len(inflight)
    \/ Len(fetches') > Len(fetches)

\* the working and baseline collections are what they were
CollectionsUnchanged ==
    UNCHANGED <<products, originalProducts, categories, originalCategories>>

\* non-deleted working products i and k, i # k, carry the same sku
SharesSku(i) ==
    \E k \in DOMAIN products :
        k # i /\ ~products[k].isDeleted /\ products[k].sku = products[i].sku

\* some non-deleted working product has an empty category, names a category that
\* is not a non-deleted working category, or shares its sku with another
InvalidForSave ==
    \E i \in DOMAIN products :
        /\ ~products[i].isDeleted
        /\ \/ products[i].category = ""
           \/ products[i].category \notin validCategoryNames
           \/ SharesSku(i)

\* C1 (validation gate): a save invoked while some non-deleted working product has
\* an empty category, or a category that is not a non-deleted working category, or
\* a sku shared with another non-deleted product, aborts: it issues no remote call,
\* does not set the busy flag and leaves the working and baseline collections of
\* products and categories unchanged.
C1_ValidationGate ==
    [][(SaveInvoked /\ InvalidForSave)
        => (~RemoteCallIssued /\ ~isSaving' /\ CollectionsUnchanged)]_vars

\* C2 (uniqueness): a save invoked while two non-deleted working products have equal
\* sku values, whatever the value (the empty sku of two new rows included), is
\* blocked and issues no remote call.
C2_UniqueSkuBlocksSave ==
    [][(SaveInvoked /\ \E i \in DOMAIN products : ~products[i].isDeleted /\ SharesSku(i))
        => (hist'.outcome = "blocked" /\ ~RemoteCallIssued)]_vars

\* the violations the three conditions of the validation define for the state
ViolatedConditions ==
    (IF \E i \in DOMAIN products : ~products[i].isDeleted /\ products[i].category = ""
     THEN {"missing category"} ELSE {})
    \cup
    (IF \E i \in DOMAIN products :
            /\ ~products[i].isDeleted
            /\ products[i].category # ""
            /\ products[i].category \notin validCategoryNames
     THEN {"deleted category"} ELSE {})
    \cup
    (IF \E i \in DOMAIN products : ~products[i].isDeleted /\ SharesSku(i)
     THEN {"duplicate SKU"} ELSE {})

\* the sku values that occur on more than one non-deleted working product
SharedSkus ==
    {products[i].sku : i \in {j \in DOMAIN products : ~products[j].isDeleted /\ SharesSku(j)}}

\* C3 (validation reports every violated condition): the violations a save reports
\* are 'missing category' iff some non-deleted product has an empty category,
\* 'deleted category' iff some non-deleted product has a non-empty category that is
\* not a non-deleted working category, and 'duplicate SKU' iff some sku occurs on
\* more than one non-deleted product, naming exactly those skus; the validation
\* changes neither the working nor the baseline collections.
C3_ValidationReportsAll ==
    [][SaveInvoked
        => /\ error'.viol = ViolatedConditions
           /\ error'.dup = SharedSkus
           /\ (ViolatedConditions # {} => CollectionsUnchanged)]_vars

\* the record a call of the save was dispatched on behalf of is both new and deleted
OnBehalfOfNewDeleted(call) ==
    IF call.src[1] = "product"
    THEN products[call.src[2]].isNew /\ products[call.src[2]].isDeleted
    ELSE categories[call.src[2]].isNew /\ categories[call.src[2]].isDeleted

\* C4 (new and deleted records are dropped silently): a save dispatches no remote
\* call of any kind on behalf of a working product or category that is both isNew
\* and isDeleted, whatever sku or name it carries.
C4_NewDeletedNoCall ==
    [][SaveInvoked
        => \A k \in DOMAIN hist'.sent : ~OnBehalfOfNewDeleted(hist'.sent[k])]_vars

\* the baseline records that working product p / category c was fetched as
BaselineOfProduct(p) ==
    {j \in DOMAIN originalProducts :
        originalProducts[j].sku = p.sku /\ ~originalProducts[j].isNew}

BaselineOfCategory(c) ==
    {j \in DOMAIN originalCategories :
        originalCategories[j].category = c.category /\ ~originalCategories[j].isNew}

\* the one mutation the classification of the specification asks for working
\* product p: Create, Delete, Update, or none (NoOp)
ExpectedProductOp(p) ==
    LET persisted == ~p.isNew /\ BaselineOfProduct(p) # {}
    IN IF p.isNew /\ ~p.isDeleted THEN <<"createProduct">>
       ELSE IF persisted /\ p.isDeleted THEN <<"deleteProduct">>
       ELSE IF persisted /\ ~p.isDeleted
               /\ \E j \in BaselineOfProduct(p) : p # originalProducts[j]
       THEN <<"updateProduct">>
       ELSE <<>>

ExpectedCategoryOp(c) ==
    LET persisted == ~c.isNew /\ BaselineOfCategory(c) # {}
    IN IF c.isNew /\ ~c.isDeleted THEN <<"createCategory">>
       ELSE IF persisted /\ c.isDeleted THEN <<"deleteCategory">>
       ELSE IF persisted /\ ~c.isDeleted
               /\ \E j \in BaselineOfCategory(c) : c # originalCategories[j]
       THEN <<"updateCategory">>
       ELSE <<>>

\* the operations of the calls the save step has dispatched on behalf of record
\* i of `kind`, in the order of dispatch
SentFor(kind, i) ==
    LET s == hist'.sent
        mine == Filter(s, {k \in DOMAIN s : s[k].src = <<kind, i>>})
    IN [k \in DOMAIN mine |-> mine[k].op]

\* C5 (classification): a save that passes the validation and is confirmed puts
\* every working product and category into exactly one bucket (Create iff new and
\* not deleted, Delete iff persisted and deleted, Update iff persisted, not deleted
\* and different from its baseline, NoOp otherwise) and dispatches exactly one
\* mutation of the matching kind for each record of the first three buckets and
\* none for a NoOp record.
C5_Classification ==
    [][(SaveInvoked /\ hist'.outcome \notin {"blocked", "cancelled"})
        => /\ \A i \in DOMAIN products :
                  SentFor("product", i) = ExpectedProductOp(products[i])
           /\ \A i \in DOMAIN categories :
                  SentFor("category", i) = ExpectedCategoryOp(categories[i])]_vars

\* the fields of a persisted product the table lets the user edit
EditableFields == {"category", "imageUrl", "productStatus", "quantityInStock"}

\* the value of field f the record holds
RawField(p, f) ==
    CASE f = "category" -> p.category
      [] f = "imageUrl" -> p.imageUrl
      [] f = "productStatus" -> p.productStatus
      [] f = "quantityInStock" -> p.quantityInStock

\* the value of field f the control of the row displays (the stock box displays
\* the number 5 and the string "5" alike)
FieldValue(p, f) ==
    IF f = "quantityInStock" THEN <<p.quantityInStock.n>> ELSE <<RawField(p, f)>>

\* C6 (diff minimality): when a persisted product differs from its baseline in one
\* editable field only, and the next step edits that field back to the value of
\* the baseline, with the baseline untouched, the product is not dirty any more:
\* it equals its baseline, so the save does not classify it as Update.
C6_EditAndRevert ==
    [][\A i \in DOMAIN products : \A f \in EditableFields :
          LET p == products[i]
          IN (/\ ~p.isNew /\ ~p.isDeleted /\ BaselineOfProduct(p) # {}
              /\ originalProducts' = originalProducts
              /\ DOMAIN products' = DOMAIN products
              /\ LET o == originalProducts[CHOOSE j \in BaselineOfProduct(p) : TRUE]
                 IN /\ FieldValue(p, f) # FieldValue(o, f)
                    /\ SetField(p, f, RawField(o, f)) = o
                    /\ FieldValue(products'[i], f) = FieldValue(o, f)
                    /\ SetField(products'[i], f, RawField(o, f)) = o)
             => products'[i] = originalProducts[CHOOSE j \in BaselineOfProduct(p) : TRUE]]_vars

\* no working product or category is new, deleted or different from its baseline
NothingPending ==
    /\ \A i \in DOMAIN products :
           /\ ~products[i].isNew /\ ~products[i].isDeleted
           /\ \A j \in BaselineOfProduct(products[i]) : products[i] = originalProducts[j]
    /\ \A i \in DOMAIN categories :
           /\ ~categories[i].isNew /\ ~categories[i].isDeleted
           /\ \A j \in BaselineOfCategory(categories[i]) :
                  categories[i] = originalCategories[j]

\* a call of handleSaveChanges has not run to its end
SaveRunning == save.pc # "idle"

\* C7 (round trip): a save invoked while no working product or category is dirty,
\* new or deleted issues no remote call, neither a mutation nor a refetch query,
\* from its invocation to its end, and leaves the working and baseline
\* collections unchanged.
C7_RoundTrip ==
    [][(NothingPending /\ (SaveInvoked \/ SaveRunning))
        => (~RemoteCallIssued /\ CollectionsUnchanged)]_vars

\* every call of the last save has been answered and the save has ended
SaveSettled ==
    /\ hist.outcome = "dispatched" /\ hist.done
    /\ \A j \in DOMAIN inflight : inflight[j].status # "pending"

\* C8 (every failure is shown): once a save that dispatched calls has ended and
\* all its calls have been answered, the error shown contains the message of
\* every call of the save that failed.
C8_AllFailuresShown == SaveSettled => hist.failed \subseteq error.msgs

\* C9 (the save awaits all its calls): while a mutation call dispatched by the save
\* is outstanding the busy flag is set and the refetch after the save has not been
\* issued, also when another call of the batch has already failed.
C9_AwaitsAllCalls ==
    \A j \in DOMAIN inflight :
        inflight[j].status = "pending"
            => /\ isSaving
               /\ \A k \in DOMAIN fetches : ~fetches[k].fromSave

\* C10 (reconciliation after success): once a save that dispatched calls, all of
\* which succeeded, and whose refetch succeeded too, has ended, working equals
\* baseline for products and for categories and no working product or category
\* has isNew or isDeleted set.
C10_ReconciledAfterSuccess ==
    (hist.done /\ hist.sent # <<>> /\ hist.settled = "fulfilled" /\ error = NoError)
        => /\ products = originalProducts
           /\ categories = originalCategories
           /\ \A i \in DOMAIN products : ~products[i].isNew /\ ~products[i].isDeleted
           /\ \A i \in DOMAIN categories :
                  ~categories[i].isNew /\ ~categories[i].isDeleted

\* C11 (refetch after a failed save): a save of which a dispatched call has failed
\* ends only through the answer of the refetch it has issued: handleSaveChanges
\* does not run to its end straight from awaiting its mutation calls.
C11_RefetchAfterFailure ==
    [][(SaveRunning /\ save'.pc = "idle" /\ hist'.settled = "rejected")
        => save.pc = "refetch"]_vars

\* C12 (busy-flag guard): a save starts only when no other save is running, and at
\* no time are mutation calls dispatched by two different saves outstanding
\* together.
C12_OneSaveAtATime ==
    [][/\ SaveInvoked => (~isSaving /\ ~SaveRunning)
       /\ \A i, j \in DOMAIN inflight' :
              (inflight'[i].status = "pending" /\ inflight'[j].status = "pending")
                  => inflight'[i].batch = inflight'[j].batch]_vars

\* the lookup of a product search is answered with its results
SearchAnswered ==
    /\ \E i \in DOMAIN fetches :
           fetches[i].query.kind # "none" /\ fetches' = Remove(fetches, i)
    /\ error'.kind # "search"

\* C13 (search-merge for products): when a search is answered, every new row of
\* the working set is still in it, and every working product with unsaved changes
\* (edited, or marked deleted) that the search returns is shown as it was edited.
C13_SearchKeepsEdits ==
    [][SearchAnswered =>
          \A p \in Range(products) :
              /\ p.isNew => p \in Range(products')
              /\ (/\ ~p.isNew
                  /\ p \notin Range(originalProducts)
                  /\ \E q \in Range(products') : q.sku = p.sku)
                     => p \in Range(products')]_vars

\* C14 (at least one localization): every product of the working set has a
\* localization, whatever the listing, the new rows and the localization editor
\* have done.
C14_AtLeastOneLocalization ==
    \A k \in DOMAIN products : Len(products[k].localizations) >= 1

\* the (lang, country) pairs of a list of localizations are pairwise distinct
DistinctKeys(locs) ==
    \A i, j \in DOMAIN locs : SameKey(locs[i], locs[j]) => i = j

\* C15 (unique (lang, country)): within each product of the working set the
\* localizations have pairwise distinct (lang, country) pairs, and no call of the
\* localization editor carries two localizations with the same pair.
C15_UniqueLocalizationKeys ==
    /\ \A k \in DOMAIN products : DistinctKeys(products[k].localizations)
    /\ \A i \in DOMAIN locModal.calls : DistinctKeys(locModal.calls[i].locs)

\* a step of handleAddTranslation: the Add button of the translation editor
AddTranslationClicked == trModal'.adds = trModal.adds + 1

DistinctLangs(list) ==
    \A i, j \in DOMAIN list : list[i].lang = list[j].lang => i = j

\* C16 (translation codes): an Add with an empty code or text, with a code that
\* has not two characters, or with a code the list has already, leaves the list of
\* the editor unchanged; a translation that is added has a code of two characters,
\* and the codes of the list stay pairwise distinct.
C16_TranslationCodes ==
    [][AddTranslationClicked =>
          LET lang == trimText(trModal.newLang)
              text == trimText(trModal.newText)
              list == trModal.translations
          IN /\ (\/ lang = <<>> \/ text = <<>> \/ Len(lang) # 2
                 \/ \E k \in DOMAIN list : list[k].lang = lang)
                    => trModal'.translations = list
             /\ trModal'.translations # list =>
                    Len(trModal'.translations[Len(list) + 1].lang) = 2
             /\ DistinctLangs(list) => DistinctLangs(trModal'.translations)]_vars

\* the name without the blanks around it
Stripped(name) == IF name = " Tools " THEN "Tools" ELSE IF name = " " THEN "" ELSE name

\* two names are the same but for the case of their letters
SameIgnoringCase(a, b) == a = b \/ {a, b} = {"Tools", "tools"}

\* C17 (addCategory): a step of handleAddCategory(name) leaves the working
\* categories as they are when the name without its blanks is empty or is, but for
\* the case of its letters, the name of a working category that is not marked
\* deleted; otherwise it puts one record {name, no translations, isNew, not deleted}
\* in front of them.  It changes no baseline and no product.
C17_AddCategory ==
    [][\A name \in CategoryInputs :
          handleAddCategory(name) =>
              LET n == Stripped(name)
                  taken == \E i \in DOMAIN categories :
                               /\ ~categories[i].isDeleted
                               /\ SameIgnoringCase(categories[i].category, n)
              IN /\ categories' =
                        IF n = "" \/ taken THEN categories
                        ELSE <<[category |-> n, translations |-> <<>>,
                                isNew |-> TRUE, isDeleted |-> FALSE]>> \o categories
                 /\ UNCHANGED <<originalCategories, originalProducts, products>>]_vars

\* a category has been added next to a category of the same name that is marked
\* deleted
C17_Added ==
    \E i, j \in DOMAIN categories :
        /\ categories[i].isNew /\ ~categories[i].isDeleted
        /\ categories[i].translations = <<>>
        /\ categories[j].isDeleted
        /\ SameIgnoringCase(categories[i].category, categories[j].category)
        /\ Len(originalCategories) < Len(categories)

\* the response is unauthorized: HTTP status 401, or an entry of type Unauthorized
\* in its error list
Unauthorized(response) == response.status = 401 \/ authError(response)

\* C18 (bounded retry): a graphqlRequest call sends at most two requests; it sends a
\* second one, for the same query, only when the first response is unauthorized; an
\* unauthorized response to the second request ends the call with an error and no
\* further request.
C18_BoundedRetry ==
    /\ Len(gateway.requests) <= 2
    /\ Len(gateway.requests) = 2 =>
           /\ Len(gateway.responses) >= 1
           /\ Unauthorized(gateway.responses[1])
           /\ gateway.isRetry
           /\ gateway.requests[2].query = gateway.requests[1].query
    /\ (Len(gateway.responses) = 2 /\ Unauthorized(gateway.responses[2])) =>
           /\ gateway.pc = "done"
           /\ gateway.outcome = "threw"
           /\ Len(gateway.requests) = 2

\* the retry has been answered unauthorized, in either form, and the call has failed
C18_RetryRefused ==
    /\ Len(gateway.responses) = 2
    /\ gateway.responses[1].status = 200
    /\ authError(gateway.responses[1])
    /\ gateway.responses[2].status = 401
    /\ gateway.outcome = "threw"

\* the response is a success without errors
Successful(response) == ResponseOk(response) /\ response.errors = <<>>

\* C19 (retry succeeds): when the first response of a graphqlRequest call is
\* unauthorized, the retry gets a token and its request is answered successfully
\* without errors, the call returns the data of the second response; nothing is
\* thrown and the page is not sent to the login page.
C19_RetryReturnsData ==
    (/\ Len(gateway.responses) = 2
     /\ Unauthorized(gateway.responses[1])
     /\ Len(gateway.attempts) = 2
     /\ gateway.attempts[2] \in Tokens
     /\ Successful(gateway.responses[2]))
    => /\ gateway.pc = "done"
       /\ gateway.outcome = "returned"
       /\ gateway.value = gateway.responses[2].data
       /\ gateway.href = "/"

\* a call has returned the data of its retry, which is not the data of the first,
\* unauthorized, response
C19_Retried ==
    /\ Len(gateway.responses) = 2
    /\ Unauthorized(gateway.responses[1])
    /\ Successful(gateway.responses[2])
    /\ gateway.responses[1].data # gateway.responses[2].data
    /\ gateway.requests[2].Authorization # gateway.requests[1].Authorization
    /\ gateway.outcome = "returned"

\* C20 (no token, no request): every request of a graphqlRequest call carries the
\* token its attempt obtained; an attempt, first or retry, whose getCurrentUserToken
\* returned no token sends no request, sets the location to the login page and ends
\* the call with the error "User is not authenticated.".
C20_NoTokenNoRequest ==
    /\ \A k \in DOMAIN gateway.requests :
           /\ gateway.requests[k].Authorization \in Tokens
           /\ gateway.requests[k].attempt \in DOMAIN gateway.attempts
           /\ gateway.requests[k].Authorization =
                  gateway.attempts[gateway.requests[k].attempt]
    /\ \A a \in DOMAIN gateway.attempts :
           gateway.attempts[a] = NoToken =>
               /\ \A k \in DOMAIN gateway.requests : gateway.requests[k].attempt # a
               /\ a = Len(gateway.attempts)
               /\ gateway.pc = "done"
               /\ gateway.href = "/login"
               /\ gateway.outcome = "threw"
               /\ gateway.value = "User is not authenticated."

\* the retry of a call got no token: one request was sent, for the first attempt,
\* and the page is sent to the login page
C20_RetryWithoutToken ==
    /\ Len(gateway.attempts) = 2
    /\ gateway.attempts[1] \in Tokens
    /\ gateway.attempts[2] = NoToken
    /\ Len(gateway.requests) = 1
    /\ gateway.href = "/login"

\* the response is a transport failure other than 401
TransportFailure(response) == response.status \notin 200..299 /\ response.status # 401

\* C21 (transport failure): a response whose status is a failure other than 401 ends
\* the graphqlRequest call at once with the error "API request failed with status
\* <status>": no request follows it and it forces no token refresh, so that after a
\* first response of this kind exactly one request has been sent and no refresh has
\* been made.
C21_TransportFailure ==
    \A k \in DOMAIN gateway.responses :
        TransportFailure(gateway.responses[k]) =>
            /\ k = Len(gateway.responses)
            /\ gateway.pc = "done"
            /\ gateway.outcome = "threw"
            /\ gateway.value = <<"API request failed with status",
                                 gateway.responses[k].status>>
            /\ Len(gateway.requests) = k
            /\ gateway.refreshes = k - 1
            /\ gateway.href = "/"

\* the first response was a 403 whose body lists an Unauthorized error: one request,
\* no refresh
C21_Forbidden ==
    /\ Len(gateway.responses) = 1
    /\ gateway.responses[1].status = 403
    /\ authError(gateway.responses[1])
    /\ Len(gateway.requests) = 1
    /\ gateway.refreshes = 0
    /\ gateway.outcome = "threw"

\* the response arrived with a success status and lists errors, none of them of type
\* Unauthorized
ApplicationErrors(response) ==
    /\ response.status \in 200..299
    /\ response.errors # <<>>
    /\ \A k \in DOMAIN response.errors : response.errors[k].errorType # "Unauthorized"

\* a response with application errors ends the call with the error `message`: no
\* request follows it, no token refresh is forced and no data is returned
FailsWith(k, message) ==
    /\ k = Len(gateway.responses)
    /\ gateway.pc = "done"
    /\ gateway.outcome = "threw"
    /\ gateway.value = message
    /\ Len(gateway.requests) = k
    /\ gateway.refreshes = k - 1

\* C22 (application errors), as stated: a response whose error list has no
\* Unauthorized entry makes the call fail with the message of the first listed error,
\* without a retry and without returning the data.
C22_FirstErrorMessage ==
    \A k \in DOMAIN gateway.responses :
        ApplicationErrors(gateway.responses[k]) =>
            FailsWith(k, gateway.responses[k].errors[1].message)

\* C22 (application errors), amended: the call fails with the message of the first
\* listed error when that message is not empty, and with "GraphQL error occurred"
\* when it is; without a retry and without returning the data.
C22_FirstErrorMessageOrDefault ==
    \A k \in DOMAIN gateway.responses :
        ApplicationErrors(gateway.responses[k]) =>
            FailsWith(k, IF gateway.responses[k].errors[1].message = ""
                         THEN "GraphQL error occurred"
                         ELSE gateway.responses[k].errors[1].message)

\* the first response listed two errors and the call failed with the message of the
\* first
C22_TwoErrors ==
    /\ Len(gateway.responses) = 1
    /\ ApplicationErrors(gateway.responses[1])
    /\ Len(gateway.responses[1].errors) = 2
    /\ gateway.outcome = "threw"
    /\ gateway.value = "bad input"

\* what getCurrentUserToken must leave in localStorage when getValidSession settled
\* as `session`
TokenStoredOrCleared(session) ==
    IF session.valid
    THEN auth'.idToken = session.idToken
    ELSE auth'.idToken = NoToken /\ auth'.refreshToken = NoToken

\* C23 (getCurrentUserToken): a call of getCurrentUserToken either returns the
\* session's token, which is then the idToken of localStorage, or returns no token;
\* it returns no token when there is no current user, when getSession fails or when
\* the session is not valid, and then localStorage holds neither idToken nor
\* refreshToken.
C23_TokenStoredOrCleared ==
    [][\A session \in getValidSession(auth) :
          /\ Attempt(session) =>
                 /\ TokenStoredOrCleared(session)
                 /\ gateway'.attempts[Len(gateway'.attempts)] =
                        (IF session.valid THEN session.idToken ELSE NoToken)
          /\ Refresh(session) => TokenStoredOrCleared(session)]_vars

\* the first attempt of a call stored its token, the retry got none, and
\* localStorage holds no token any more
C23_Cleared ==
    /\ Len(gateway.attempts) = 2
    /\ gateway.attempts[1] \in Tokens
    /\ gateway.attempts[2] = NoToken
    /\ auth.idToken = NoToken
    /\ auth.refreshToken = NoToken

\* no current user in the pool and nothing in localStorage
NoSession == [user |-> FALSE, idToken |-> NoToken, refreshToken |-> NoToken]

\* C24 (logout): whatever the browser holds, logout leaves no current user, no
\* idToken and no refreshToken, and a second logout leaves that state as it is.
C24_LogoutIdempotent ==
    [][handleLogout =>
          /\ auth' = NoSession
          /\ logout(auth') = auth'
          /\ \A a \in AuthStates : logout(a) = NoSession /\ logout(logout(a)) = logout(a)]_vars

\* logout has run twice in a row: in getCurrentUserToken, which found no session at
\* the retry of a call, and then in handleLogout
C24_LoggedOutTwice ==
    /\ gateway.navigated
    /\ Len(gateway.attempts) = 2
    /\ gateway.attempts[2] = NoToken
    /\ gateway.href = "/login"
    /\ auth = NoSession

\* C25 (load more of a search): while a search is active, a click on Load More sends
\* one call, the lookup whose answer the table shows, by category or by text, with
\* the continuation token of the table, and no request for the unfiltered listing;
\* when that call is answered, its page is appended to the products of the table and
\* the search stays active.
C25_LoadMoreOfSearch ==
    [][/\ (LoadMore /\ isProductSearchActive) =>
              /\ Len(fetches') = Len(fetches) + 1
              /\ LET call == fetches'[Len(fetches')]
                 IN /\ call.query = shownQuery
                    /\ call.query.kind \in {"category", "text"}
                    /\ call.sentToken = productNextToken
                    /\ ~call.reqProducts
       /\ \A i \in DOMAIN fetches :
              (/\ FetchRespond(i, TRUE)
               /\ fetches[i].query.kind # "none"
               /\ fetches[i].token # 0) =>
                  /\ Len(products') >= Len(products)
                  /\ SubSeq(products', 1, Len(products)) = products
                  /\ isProductSearchActive']_vars

\* the user clears the search that is active: the Clear button, or Search with a
\* search box that holds blanks only
SearchCleared ==
    \/ clearProductSearch
    \/ \E text \in SearchTexts :
           trim(text) = "" /\ isProductSearchActive /\ handleProductSearch(text)

\* C26 (clear): clearing the search that is active sends one call, which asks the
\* unfiltered listing for its first page, with no continuation token, whatever token
\* the table has; when that call is answered, the table shows that page alone and
\* the search is no longer active.
C26_ClearStartsOver ==
    [][/\ SearchCleared =>
              /\ Len(fetches') = Len(fetches) + 1
              /\ LET call == fetches'[Len(fetches')]
                 IN /\ call.query = NoQuery
                    /\ call.reqProducts
                    /\ call.sentToken = 0
                    /\ ~call.append
       /\ \A i \in DOMAIN fetches :
              (FetchRespond(i, TRUE) /\ fetches[i].clearing) =>
                  /\ LET page == getAllProducts(srvProducts, 0).items
                     IN products' = [k \in DOMAIN page |-> FromServer(page[k])]
                  /\ ~isProductSearchActive']_vars

\* the Clear button has been clicked while the table shows the first page of a
\* search by category and holds its continuation token, and the call for the first
\* page of the listing is under way
C26_Clearing ==
    /\ shownQuery.kind = "category"
    /\ productNextToken # 0
    /\ productSearch = ""
    /\ ~isProductSearchActive
    /\ \E i \in DOMAIN fetches : fetches[i].clearing /\ fetches[i].sentToken = 0

\* the calls a step of the localization editor sends
CallsIssued ==
    IF isLocalizationModalOpen' /\ locModal'.pc # "idle" /\ locModal'.calls # locModal.calls
    THEN locModal'.calls
    ELSE <<>>

\* the baseline localizations whose (lang, country) the edited list no longer has
RemovedKeys ==
    {k \in DOMAIN locModal.originalLocalizations :
        \A j \in DOMAIN locModal.localizations :
            ~SameKey(locModal.localizations[j], locModal.originalLocalizations[k])}

\* the entry is in the baseline with the same values in every field
EqualToBaseline(loc) ==
    \E k \in DOMAIN locModal.originalLocalizations :
        Cleaned(locModal.originalLocalizations[k]) = loc

\* C27 (localization diff): when Save Changes of the localization editor is clicked
\* for a persisted product whose rows are valid, and in the steps of that save, the
\* removeLocalization calls sent are one for each baseline (lang, country) that the
\* edited list no longer has, and an addLocalization or updateLocalization call
\* carries no entry that equals its baseline counterpart; so the save of an unchanged
\* list sends no call.
C27_LocalizationDiff ==
    [][(Modal_handleSaveChanges \/ UpdateAnswered) =>
          LET calls == CallsIssued
              removes == {i \in DOMAIN calls : calls[i].op = "removeLocalization"}
          IN /\ \A i \in removes :
                    \E k \in RemovedKeys :
                        SameKey(calls[i].locs[1], locModal.originalLocalizations[k])
             /\ removes # {} =>
                    \A k \in RemovedKeys :
                        Cardinality({i \in removes :
                            SameKey(calls[i].locs[1],
                                    locModal.originalLocalizations[k])}) = 1
             /\ \A i \in DOMAIN calls \ removes :
                    \A j \in DOMAIN calls[i].locs : ~EqualToBaseline(calls[i].locs[j])]_vars

\* the call Save Changes of the translation editor sends, as the list of the calls of
\* apiService it makes
TranslationCalls ==
    IF trModal'.call # <<>> /\ trModal'.call # trModal.call
    THEN <<[op |-> "upsertCategoryTranslation",
            category |-> trModal'.call[1].category,
            translations |-> trModal'.call[1].translations]>>
    ELSE <<>>

\* the langs of the baseline that the edited list no longer has
RemovedLangs ==
    {trModal.originalTranslations[k].lang : k \in DOMAIN trModal.originalTranslations}
        \ {trModal.translations[k].lang : k \in DOMAIN trModal.translations}

\* C28 (translation diff): when Save Changes of the translation editor is clicked for
\* a persisted category, a removeCategoryTranslation call is sent for each lang of
\* the baseline that the edited list no longer has, and an upsert call carries only
\* translations that are not in the baseline with the same text.
C28_TranslationDiff ==
    [][(Translations_handleSaveChanges /\ ~editingCategory[1].isNew /\ trRev # "t1") =>
          LET calls == TranslationCalls
          IN /\ \A lang \in RemovedLangs :
                    \E i \in DOMAIN calls :
                        /\ calls[i].op = "removeCategoryTranslation"
                        /\ calls[i].lang = lang
             /\ \A i \in DOMAIN calls :
                    calls[i].op = "upsertCategoryTranslation" =>
                        \A j \in DOMAIN calls[i].translations :
                            \A k \in DOMAIN trModal.originalTranslations :
                                calls[i].translations[j] #
                                    trModal.originalTranslations[k]]_vars

\* C29 (baseline is server state): no product of the baseline is a new row or
\* carries a deletion mark, also after Load More is used while new rows or deletion
\* marks are pending.
C29_BaselineIsServerState ==
    \A k \in DOMAIN originalProducts :
        ~originalProducts[k].isNew /\ ~originalProducts[k].isDeleted

\* C30 (temporary ids): the row handleAddRow puts in front of the working products
\* has an id that no other new row of the working products has; handleRemoveNewRow
\* of a new row removes that row alone, leaves the other working products and the
\* baseline as they are, and sends no call.
C30_TempIds ==
    [][/\ (\E tick \in BOOLEAN : handleAddRow(tick)) =>
              \A j \in 2..Len(products') :
                  products'[j].isNew => products'[j].id # products'[1].id
       /\ \A i \in DOMAIN products :
              handleRemoveNewRow(i) =>
                  /\ products' = Remove(products, i)
                  /\ UNCHANGED <<originalProducts, inflight, fetches>>]_vars


\* C31: while every remote call is answered in the end, successfully or not, a save
\* that has set the busy flag clears it in the end, whatever becomes of its mutation
\* calls and of its refetch: isSaving leads to ~isSaving.
C31_BusyFlagCleared == isSaving ~> ~isSaving

\* a save has dispatched calls, one of them was refused, and the busy flag is clear
\* again
C31_ClearedAfterFailure ==
    /\ hist.outcome = "dispatched" /\ hist.failed # {}
    /\ hist.done /\ ~isSaving

C34_ClearUnfiltered ==
    [][clearLogSearch =>
          LET request == logFetches'[Len(logFetches')]
          IN request.token = 0 /\ request.orderId = ""]_vars

\* C37: a click on Load More Events, while the table shows the answer to a filtered
\* request, sends its request with the order identifier of that request, whatever
\* the order filter box holds by then.
C37_LoadMoreOfFilter ==
    [][(LoadMoreEvents /\ shownOrder # "") =>
          logFetches'[Len(logFetches')].orderId = shownOrder]_vars

\* a step of the category search: a click on Search or on Clear, or an answer
CategorySearchStep ==
    \/ handleCategorySearch
    \/ clearCategorySearch
    \/ \E i \in DOMAIN categoryLookups : \E ok \in BOOLEAN : CategoryLookupRespond(i, ok)

C36_OneRecordPerCategory ==
    /\ \A i, j \in DOMAIN categories :
           categories[i].category = categories[j].category => i = j
    /\ \A a, b \in DOMAIN hist.sent :
           (hist.sent[a].op = "createCategory" /\ hist.sent[b].op = "deleteCategory")
               => hist.sent[a].key # hist.sent[b].key

\* C35: when the save of the localization editor, opened on a persisted product,
\* puts its product into the working copy, that product keeps its category,
\* imageUrl, productStatus and quantityInStock as edited and its isNew and isDeleted
\* flags, only its localizations may differ, and every other product stays as it is.
C35_OnlyLocalizations ==
    [][((Modal_handleSaveChanges \/ UpdateAnswered \/ AllSettled)
            /\ ~editingProduct[1].isNew) =>
          /\ Len(products') = Len(products)
          /\ \A k \in DOMAIN products :
                 IF ~products[k].isNew /\ products[k].sku = editingProduct[1].sku
                 THEN products'[k] =
                          [products[k] EXCEPT !.localizations = products'[k].localizations]
                 ELSE products'[k] = products[k]]_vars

\* C38: when a listing call, a load more, a product search or a category search
\* fails, the working copy and the baseline of the products and of the categories
\* and the continuation token stay as they were.
C38_FailureKeepsCollections ==
    [][(\/ \E i \in DOMAIN fetches : FetchRespond(i, FALSE)
        \/ \E i \in DOMAIN categoryLookups : CategoryLookupRespond(i, FALSE)) =>
          UNCHANGED <<products, originalProducts, categories, originalCategories,
                      productNextToken>>]_vars

====
